---- MODULE Spec2Model ----
(***************************************************************************)
(* aws-copier: incremental folder backup to S3.                            *)
(*                                                                         *)
(* The module models FileListener (core/file_listener.py), the per-folder  *)
(* reconciliation driven both by the full scan and by the live monitor,    *)
(* together with the part of S3Manager (core/s3_manager.py) it calls.      *)
(*                                                                         *)
(* Two coroutines reconcile folders on one event loop: the full scan       *)
(* (scan_all_folders) and the reconciliation scheduled by the folder       *)
(* watcher.  A coroutine step is the code between two suspension points.   *)
(* Steps that only read are merged with a neighbour when they commute with *)
(* every step of the other coroutine and of the environment:               *)
(*   - loading the manifest and listing the folder run without suspension; *)
(*     the hashes that follow read files only, so the whole of             *)
(*     load + list + hash + diff + task creation is one step (Scan);       *)
(*   - acquiring the semaphore is merged with the hash that follows it;    *)
(*   - in upload_file, the hash is merged with the transfer it precedes.   *)
(***************************************************************************)
EXTENDS Integers, Sequences, FiniteSets, TLC

\* ---------------------------------------------------------------- bounds
\* Reconciliations started in one behaviour.
MaxRecons == 2
\* Changes the environment makes to the watched files in one behaviour.
MaxFsChanges == 1
\* Permits of the upload semaphore (asyncio.Semaphore(50) in the program,
\* scaled down so that the candidates of two folders exceed it).
UploadPermits == 2

\* ------------------------------------------------------------ the world
\* Watched folders, the file names in iterdir order, the names that occur in
\* each folder, and the contents a file can have.
Dirs == {"docs", "pics"}
Names == <<"a.txt", "b.txt", ".DS_Store", ".milo_backup.info", "pics">>
Files == [d \in Dirs |-> IF d = "docs" THEN {"a.txt", "b.txt"} ELSE {"a.txt"}]
Contents == {"x", "y"}

\* Besides the files the user works on, pics holds a .DS_Store and docs the
\* subfolder pics; every folder holds its manifest once it has been written.
backup_info_filename == ".milo_backup.info"
Litter == [d \in Dirs |-> IF d = "pics" THEN {".DS_Store"} ELSE {}]
Subfolders == [d \in Dirs |-> IF d = "docs" THEN {"pics"} ELSE {}]

\* The two reconciliation paths: scan_all_folders and the folder watcher.
Procs == {"scan", "live"}

NameSet == {Names[i] : i \in 1..Len(Names)}

\* A file of the folder: missing, present but unreadable, or its bytes.
Absent == "absent"
Locked == "locked"
\* An entry of the folder that is a directory (Path.is_dir()).
IsDir == "dir"
\* The bytes of a manifest file, whatever mapping it holds.
ManifestBytes == "json"
FileStates == Contents \cup {Absent, Locked, IsDir}

\* Python's None as the result of a failed hash / a missing dict key.
None == <<>>

\* hashlib.md5 of the bytes: injective on the modelled contents.
md5(c) == <<"md5", c>>

Hashes == {md5(c) : c \in Contents}

VARIABLES
    fs,                 \* fs[d][f]: state of file f of folder d
    backup_info,        \* backup_info[d]: the .milo_backup.info of folder d
    remote,             \* remote[d][f]: md5-checksum metadata of the object, or None
    upload_semaphore,   \* free permits of FileListener.upload_semaphore
    proc,               \* proc[p]: the reconciliation coroutine of path p
    stats,              \* FileListener._stats, or NoStats when not observed
    last,               \* last[d]: history of the latest committed reconciliation
    confirmed,          \* history: <<d, f, h>> the remote store was confirmed to hold
    nrecons,            \* reconciliations started
    nchanges,           \* environment changes made
    call                \* argument/result of a pure function under test

vars == <<fs, backup_info, remote, upload_semaphore, proc, stats, last,
          confirmed, nrecons, nchanges, call>>

\* ------------------------------------------------------------- records
EmptyFiles == [f \in NameSet |-> None]

\* A folder without .milo_backup.info, and one whose .milo_backup.info is
\* not the JSON the program writes.
NoBackupInfo == [state |-> "missing", files |-> EmptyFiles]
CorruptBackupInfo == [state |-> "corrupt", files |-> EmptyFiles]

\* The states of one _upload_single_file task.
\*   none       no task (the file is no candidate)
\*   waiting    created, waiting for upload_semaphore
\*   checking   holds a permit, about to call check_exists(s3_key, local_md5)
\*   uploading  about to call upload_file
\*   verifying  put_object done, about to read the object back
\*   skipped    returned True: the object was already there
\*   uploaded   returned True: upload_file succeeded
\*   failed     returned False
\*   timeout    cancelled by asyncio.wait_for
Holding == {"checking", "uploading", "verifying"}
Final == {"skipped", "uploaded", "failed", "timeout"}
Succeeded == {"skipped", "uploaded"}

\* local_md5 and md5_hash are the task's hashes while it needs them; why tells,
\* while the task is about to upload, whether check_exists answered False for
\* want of a matching object ("miss") or on a transport error ("error").
NoTask == [st |-> "none", local_md5 |-> None, md5_hash |-> None, why |-> "none"]
NewTask == [NoTask EXCEPT !.st = "waiting"]

\* History of the latest committed reconciliation of a folder:
\*   ok, failed  the candidates that succeeded / did not
\*   snap        the folder's files when it scanned
\*   solo        no other reconciliation of the folder overlapped it
\*   quiet       the folder's files have not changed since it scanned
\*   wrote       its write of the manifest, if it made one, did not fail
NoLast == [done |-> FALSE, ok |-> {}, failed |-> {}, snap |-> [f \in NameSet |-> Absent],
           solo |-> FALSE, quiet |-> FALSE, wrote |-> FALSE]

IdleProc == [pc |-> "idle", folder |-> "none", existing |-> EmptyFiles,
             current |-> EmptyFiles, files_to_upload |-> <<>>,
             task |-> [f \in NameSet |-> NoTask],
             snap |-> [f \in NameSet |-> Absent],
             solo |-> FALSE, quiet |-> FALSE]

\* FileListener._stats; `on` is FALSE in a specification that does not
\* observe the counters, which then stay as they are.
ZeroStats(on) == [on |-> on, scanned_folders |-> 0, scanned_files |-> 0, ignored_files |-> 0,
                  uploaded_files |-> 0, skipped_files |-> 0, errors |-> 0]

Bump(s, k, n) == IF s.on THEN [s EXCEPT ![k] = @ + n] ELSE s

NoCall == [fn |-> "none"]

Range(seq) == {seq[i] : i \in 1..Len(seq)}

\* Mutant: a file that cannot be read hashes like an empty one.
CalculateMd5_LockedReadable(state) ==
    IF state \in Contents \cup {ManifestBytes} THEN md5(state)
    ELSE IF state = Locked THEN md5("x") ELSE None

\* ------------------------------------------------------ pure functions
\* FileListener._calculate_md5: the hash of the bytes, None on any error.
CalculateMd5(state) == IF state \in Contents \cup {ManifestBytes} THEN md5(state) ELSE None

\* Path.name of each entry, character by character.
Chars ==
    ("a.txt" :> <<"a", ".", "t", "x", "t">>) @@
    ("b.txt" :> <<"b", ".", "t", "x", "t">>) @@
    (".DS_Store" :> <<".", "D", "S", "_", "S", "t", "o", "r", "e">>) @@
    (".milo_backup.info" :> <<".", "m", "i", "l", "o", "_", "b", "a", "c", "k", "u", "p", ".", "i", "n", "f", "o">>) @@
    ("pics" :> <<"p", "i", "c", "s">>) @@
    (".hidden" :> <<".", "h", "i", "d", "d", "e", "n">>) @@
    ("x.tmp" :> <<"x", ".", "t", "m", "p">>) @@
    ("Thumbs.db" :> <<"T", "h", "u", "m", "b", "s", ".", "d", "b">>) @@
    ("y.bak" :> <<"y", ".", "b", "a", "k">>) @@
    ("docs" :> <<"d", "o", "c", "s">>) @@
    ("music" :> <<"m", "u", "s", "i", "c">>) @@
    (".git" :> <<".", "g", "i", "t">>) @@
    ("node_modules" :> <<"n", "o", "d", "e", "_", "m", "o", "d", "u", "l", "e", "s">>) @@
    ("2024" :> <<"2", "0", "2", "4">>) @@
    ("link" :> <<"l", "i", "n", "k">>) @@
    ("lib" :> <<"l", "i", "b">>) @@
    ("objects" :> <<"o", "b", "j", "e", "c", "t", "s">>) @@
    (".cache" :> <<".", "c", "a", "c", "h", "e">>) @@
    ("ghost" :> <<"g", "h", "o", "s", "t">>) @@
    ("notes.txt" :> <<"n", "o", "t", "e", "s", ".", "t", "x", "t">>) @@
    ("home" :> <<"h", "o", "m", "e">>) @@
    ("tmp" :> <<"t", "m", "p">>) @@
    ("sub" :> <<"s", "u", "b">>) @@
    ("a\\b.txt" :> <<"a", "\\", "b", ".", "t", "x", "t">>) @@
    ("backup" :> <<"b", "a", "c", "k", "u", "p">>) @@
    ("my\\docs" :> <<"m", "y", "\\", "d", "o", "c", "s">>)

\* FileListener.ignore_patterns: the entries of each kind that the rule
\* below tells apart (exact names, dot patterns, glob-like patterns).
ignore_patterns ==
    {<<".", "D", "S", "_", "S", "t", "o", "r", "e">>,
     <<"T", "h", "u", "m", "b", "s", ".", "d", "b">>,
     <<".", "t", "m", "p">>,
     <<".", "g", "i", "t">>,
     <<"*", ".", "b", "a", "k">>,
     <<".", "m", "i", "l", "o", "_", "b", "a", "c", "k", "u", "p", ".", "i", "n", "f", "o">>}

\* str.startswith
StartsWith(str, prefix) ==
    /\ Len(prefix) <= Len(str)
    /\ \A i \in 1..Len(prefix) : str[i] = prefix[i]

\* Mutant of _should_ignore_file: nothing is ignored.
ShouldIgnoreFile_Never(filename) == FALSE

\* FileListener._should_ignore_file on Path.name: an exact member of
\* ignore_patterns, or a name that starts with one of its dot patterns.
ShouldIgnoreFile(filename) ==
    \/ filename \in ignore_patterns
    \/ \E pattern \in ignore_patterns :
         StartsWith(pattern, <<".">>) /\ StartsWith(filename, pattern)

\* Mutant of _load_backup_info: a manifest that cannot be read is taken to
\* record every file with the content an earlier run backed up.
LoadBackupInfo_AssumesBackedUp(info) ==
    IF info.state = "valid" THEN info.files ELSE [f \in NameSet |-> md5("x")]

\* FileListener._load_backup_info: {} when the file is missing or unreadable.
LoadBackupInfo(info) == IF info.state = "valid" THEN info.files ELSE EmptyFiles

\* FileListener._scan_current_files: the hash of every listed file whose
\* hashing succeeded.
ScanCurrentFiles(folder) ==
    [f \in NameSet |->
        IF folder[f] \in {Absent, IsDir} \/ ShouldIgnoreFile(Chars[f]) THEN None
        ELSE CalculateMd5(folder[f])]

\* Mutants of _determine_files_to_upload: one that takes a file without a
\* manifest entry for unchanged, one that walks the manifest's names as well.
RECURSIVE DetermineKnownFrom(_, _, _)
DetermineKnownFrom(current, existing, n) ==
    IF n = 0 THEN <<>>
    ELSE LET rest == DetermineKnownFrom(current, existing, n - 1)
             f == Names[n]
         IN  IF current[f] # None /\ existing[f] # None /\ existing[f] # current[f]
             THEN Append(rest, f) ELSE rest

DetermineFilesToUpload_OnlyKnown(current, existing) ==
    DetermineKnownFrom(current, existing, Len(Names))

RECURSIVE DetermineAnyFrom(_, _, _)
DetermineAnyFrom(current, existing, n) ==
    IF n = 0 THEN <<>>
    ELSE LET rest == DetermineAnyFrom(current, existing, n - 1)
             f == Names[n]
         IN  IF existing[f] # current[f] THEN Append(rest, f) ELSE rest

DetermineFilesToUpload_FromManifest(current, existing) ==
    DetermineAnyFrom(current, existing, Len(Names))

\* FileListener._determine_files_to_upload, in the order of current_files.
RECURSIVE DetermineFrom(_, _, _)
DetermineFrom(current, existing, n) ==
    IF n = 0 THEN <<>>
    ELSE LET rest == DetermineFrom(current, existing, n - 1)
             f == Names[n]
         IN  IF current[f] # None /\ existing[f] # current[f]
             THEN Append(rest, f) ELSE rest

DetermineFilesToUpload(current, existing) == DetermineFrom(current, existing, Len(Names))

\* Mutants of step 5: one that writes the previous manifest back, one that
\* records every candidate, uploaded or not.
UpdatedBackupInfo_KeepsPrevious(existing, current, files_to_upload, uploaded_files) ==
    existing

UpdatedBackupInfo_RecordsAttempted(existing, current, files_to_upload, uploaded_files) ==
    [f \in NameSet |-> IF current[f] # None THEN current[f] ELSE existing[f]]

\* FileListener._process_current_folder, step 5: the mapping it writes when
\* some upload succeeded.
UpdatedBackupInfo(existing, current, files_to_upload, uploaded_files) ==
    [f \in NameSet |->
        IF current[f] # None /\ f \notin Range(files_to_upload) THEN current[f]
        ELSE IF f \in uploaded_files /\ current[f] # None THEN current[f]
        ELSE existing[f]]

\* What head_object answers: the object's metadata and ETag, a ClientError
\* with code 404, another ClientError, or any other exception.  metadata is
\* the md5-checksum entry (None: no such entry); the ETag is absent, the MD5
\* of a simple upload, or the "<hex>-<parts>" tag of a multipart upload.
NoETag == <<>>
SimpleETag(h) == <<"simple", h>>
MultipartETag(h) == <<"multipart", h>>
ETags == {NoETag} \cup {SimpleETag(h) : h \in Hashes} \cup {MultipartETag(h) : h \in Hashes}

Answer(kind, metadata, etag) == [kind |-> kind, metadata |-> metadata, etag |-> etag]
NotFound == Answer("404", None, NoETag)
ClientError == Answer("client_error", None, NoETag)
OtherError == Answer("exception", None, NoETag)
HeadResponses ==
    {NotFound, ClientError, OtherError} \cup
    {Answer("ok", m, e) : m \in Hashes \cup {None}, e \in ETags}

\* "-" in etag
HasDash(etag) == etag # NoETag /\ etag[1] = "multipart"

\* Mutant of check_exists: an error of head_object other than 404 is taken
\* for a matching object.
check_exists_ErrorMeansPresent(response, expected_md5) ==
    IF response.kind = "404" THEN FALSE
    ELSE IF response.kind # "ok" THEN TRUE
    ELSE IF expected_md5 = None THEN TRUE
    ELSE IF response.metadata # None THEN response.metadata = expected_md5
    ELSE IF ~HasDash(response.etag) THEN response.etag = SimpleETag(expected_md5)
    ELSE TRUE

\* S3Manager.check_exists(s3_key, expected_md5), given the answer of
\* head_object: both except clauses return False.
check_exists(response, expected_md5) ==
    IF response.kind # "ok" THEN FALSE
    ELSE IF expected_md5 = None THEN TRUE
    ELSE IF response.metadata # None THEN response.metadata = expected_md5
    ELSE IF ~HasDash(response.etag) THEN response.etag = SimpleETag(expected_md5)
    ELSE TRUE

\* Mutant of check_exists: the stored checksum is never found equal.
CheckExists_Never(stored, expected_md5, err) == FALSE

\* S3Manager.check_exists(key, expected_md5) on an object this program wrote:
\* stored is its md5-checksum metadata (None: no object, head_object answers
\* 404), err a transport error.
CheckExists(stored, expected_md5, err) ==
    check_exists(IF err THEN OtherError
                 ELSE IF stored = None THEN NotFound
                 ELSE Answer("ok", stored, MultipartETag(stored)),
                 expected_md5)

\* S3Manager.upload_file as a function of what it meets: the state of the
\* local file, its size class, whether the transfer calls succeed (put) and
\* what head_object answers to the verification.  contacted: a call to the
\* remote store was made.
upload_file(state, large, put, response) ==
    IF state = Absent THEN [result |-> FALSE, contacted |-> FALSE]
    ELSE IF CalculateMd5(state) = None THEN [result |-> FALSE, contacted |-> FALSE]
    ELSE IF ~put THEN [result |-> FALSE, contacted |-> TRUE]
    ELSE IF large THEN [result |-> TRUE, contacted |-> TRUE]
    ELSE [result |-> check_exists(response, CalculateMd5(state)), contacted |-> TRUE]

\* Mutant: a task that ends keeps its permit.
Release_Leaks(permits) == permits

\* Leaving `async with self.upload_semaphore`, by return, exception or
\* cancellation.
Release(permits) == permits + 1

\* Mutant of the semaphore: a task enters without a free permit.
CanAcquire_Always(permits) == TRUE

\* asyncio.Semaphore.acquire returns at once iff a permit is free.
CanAcquire(permits) == permits > 0

\* ---------------------------------------------------------------- Init
\* What an earlier run of the program left behind: every file backed up
\* with content "x".
BackedUp(d) == [f \in NameSet |-> IF f \in Files[d] THEN md5("x") ELSE None]

\* The program starts either on folders never backed up, or on folders an
\* earlier run backed up and in which docs/a.txt was modified since.
FreshWorld ==
    /\ fs = [d \in Dirs |-> [f \in NameSet |->
               IF f \in Files[d] \cup Litter[d] THEN "x"
               ELSE IF f \in Subfolders[d] THEN IsDir ELSE Absent]]
    /\ backup_info = [d \in Dirs |-> NoBackupInfo]
    /\ remote = [d \in Dirs |-> EmptyFiles]
    /\ confirmed = {}

RestartedWorld ==
    /\ fs = [d \in Dirs |-> [f \in NameSet |->
               IF f \in Subfolders[d] THEN IsDir
               ELSE IF f \notin Files[d] \cup Litter[d] THEN Absent
               ELSE IF d = "docs" /\ f = "a.txt" THEN "y" ELSE "x"]]
    /\ backup_info = [d \in Dirs |-> [state |-> "valid", files |-> BackedUp(d)]]
    /\ remote = [d \in Dirs |-> BackedUp(d)]
    /\ confirmed = {<<d, f, md5("x")>> : d \in Dirs, f \in NameSet} \cap
                    {<<d, f, BackedUp(d)[f]>> : d \in Dirs, f \in NameSet}

InitWorld == FreshWorld \/ RestartedWorld

\* FileListener.__init__
InitListener ==
    /\ upload_semaphore = UploadPermits
    /\ proc = [p \in Procs |-> IdleProc]
    /\ last = [d \in Dirs |-> NoLast]
    /\ nrecons = 0
    /\ nchanges = 0

Init ==
    /\ InitWorld
    /\ InitListener
    /\ stats = ZeroStats(FALSE)
    /\ call = NoCall

\* ------------------------------------------------------- environment
\* The user creates, overwrites, deletes or locks a file of a watched folder.
FsChange(d, f, c) ==
    /\ nchanges < MaxFsChanges
    /\ f \in Files[d]
    /\ c # IsDir
    /\ c # fs[d][f]
    /\ fs' = [fs EXCEPT ![d][f] = c]
    /\ nchanges' = nchanges + 1
    /\ last' = [last EXCEPT ![d].quiet = FALSE]
    /\ proc' = [p \in Procs |->
                  IF proc[p].folder = d THEN [proc[p] EXCEPT !.quiet = FALSE] ELSE proc[p]]
    /\ UNCHANGED <<backup_info, remote, upload_semaphore, stats, confirmed, nrecons, call>>

\* --------------------------------------------------- reconciliation
Active(p, d) == proc[p].pc # "idle" /\ proc[p].folder = d

\* folder_path.iterdir(): the entries of fs, and the manifest once the
\* program has written it.
Listing(d) ==
    [f \in NameSet |->
        IF f = backup_info_filename
        THEN (IF backup_info[d].state = "missing" THEN Absent ELSE ManifestBytes)
        ELSE fs[d][f]]

\* _process_current_folder up to the creation of the upload tasks:
\* _load_backup_info, _scan_current_files, _determine_files_to_upload and the
\* create_task loop of _upload_files.
Scan(p, d) ==
    /\ proc[p].pc = "idle"
    /\ nrecons < MaxRecons
    /\ LET existing == LoadBackupInfo(backup_info[d])
           current == ScanCurrentFiles(Listing(d))
           todo == DetermineFilesToUpload(current, existing)
           others == {q \in Procs \ {p} : Active(q, d)}
           hashed == {f \in NameSet : current[f] # None}
           errs == {f \in NameSet : /\ Listing(d)[f] \notin {Absent, IsDir}
                                    /\ ~ShouldIgnoreFile(Chars[f])
                                    /\ current[f] = None}
       IN  /\ proc' = [q \in Procs |->
                 IF q = p
                 THEN [pc |-> "uploading", folder |-> d, existing |-> existing,
                       current |-> current, files_to_upload |-> todo,
                       task |-> [f \in NameSet |-> IF f \in Range(todo) THEN NewTask ELSE NoTask],
                       snap |-> fs[d],
                       solo |-> (others = {}), quiet |-> TRUE]
                 ELSE IF q \in others THEN [proc[q] EXCEPT !.solo = FALSE]
                 ELSE proc[q]]
           /\ stats' = Bump(Bump(Bump(Bump(stats,
                          "scanned_folders", IF p = "scan" THEN 1 ELSE 0),
                          "scanned_files", Cardinality(hashed)),
                          "errors", Cardinality(errs)),
                          "skipped_files", Cardinality(hashed \ Range(todo)))
    /\ nrecons' = nrecons + 1
    /\ UNCHANGED <<fs, backup_info, remote, upload_semaphore, last, confirmed, nchanges, call>>

SetTask(p, f, t) == [proc EXCEPT ![p].task[f] = t]

\* async with self.upload_semaphore, then
\* local_md5 = await self._calculate_md5(file_path); None ends the task and
\* gives the permit back.
Acquire(p, f) ==
    /\ proc[p].task[f].st = "waiting"
    /\ CanAcquire(upload_semaphore)
    /\ LET h == CalculateMd5(fs[proc[p].folder][f])
       IN  IF h = None
           THEN /\ proc' = SetTask(p, f, [proc[p].task[f] EXCEPT !.st = "failed"])
                /\ stats' = Bump(stats, "errors", 1)
                /\ UNCHANGED upload_semaphore
           ELSE /\ proc' = SetTask(p, f, [proc[p].task[f] EXCEPT !.st = "checking", !.local_md5 = h])
                /\ upload_semaphore' = upload_semaphore - 1
                /\ UNCHANGED stats
    /\ UNCHANGED <<fs, backup_info, remote, last, confirmed, nrecons, nchanges, call>>

\* if await self.s3_manager.check_exists(s3_key, local_md5): return True
CheckRemote(p, f) ==
    /\ proc[p].task[f].st = "checking"
    /\ \E err \in BOOLEAN :
         LET d == proc[p].folder
             t == proc[p].task[f]
             t1 == [t EXCEPT !.local_md5 = None]
         IN  IF CheckExists(remote[d][f], t.local_md5, err)
             THEN /\ proc' = SetTask(p, f, [t1 EXCEPT !.st = "skipped"])
                  /\ upload_semaphore' = Release(upload_semaphore)
                  /\ stats' = Bump(stats, "skipped_files", 1)
                  /\ confirmed' = confirmed \cup {<<d, f, t.local_md5>>}
             ELSE /\ proc' = SetTask(p, f, [t1 EXCEPT !.st = "uploading",
                                                      !.why = IF err THEN "error" ELSE "miss"])
                  /\ UNCHANGED <<upload_semaphore, stats, confirmed>>
    /\ UNCHANGED <<fs, backup_info, remote, last, nrecons, nchanges, call>>

\* S3Manager.upload_file up to the end of the transfer.  ok: the transport
\* calls succeed; large: the file is above 100 MB and goes through
\* _upload_large_file, which returns True once the upload is completed.
UploadFile(p, f) ==
    /\ proc[p].task[f].st = "uploading"
    /\ \E ok \in BOOLEAN, large \in BOOLEAN :
         LET d == proc[p].folder
             t == [proc[p].task[f] EXCEPT !.why = "none"]
             md5_hash == CalculateMd5(fs[d][f])
         IN  IF md5_hash = None \/ ~ok
             THEN /\ proc' = SetTask(p, f, [t EXCEPT !.st = "failed"])
                  /\ upload_semaphore' = Release(upload_semaphore)
                  /\ stats' = Bump(stats, "errors", 1)
                  /\ UNCHANGED <<remote, confirmed>>
             ELSE IF large
             THEN /\ remote' = [remote EXCEPT ![d][f] = md5_hash]
                  /\ proc' = SetTask(p, f, [t EXCEPT !.st = "uploaded"])
                  /\ upload_semaphore' = Release(upload_semaphore)
                  /\ stats' = Bump(stats, "uploaded_files", 1)
                  /\ confirmed' = confirmed \cup {<<d, f, md5_hash>>}
             ELSE /\ remote' = [remote EXCEPT ![d][f] = md5_hash]
                  /\ proc' = SetTask(p, f, [t EXCEPT !.st = "verifying", !.md5_hash = md5_hash])
                  /\ UNCHANGED <<upload_semaphore, stats, confirmed>>
    /\ UNCHANGED <<fs, backup_info, last, nrecons, nchanges, call>>

\* S3Manager.upload_file, the verification after put_object:
\* if await self.check_exists(s3_key, md5_hash): return True.
Verify(p, f) ==
    /\ proc[p].task[f].st = "verifying"
    /\ \E err \in BOOLEAN :
         LET d == proc[p].folder
             t == proc[p].task[f]
             t1 == [t EXCEPT !.md5_hash = None]
         IN  IF CheckExists(remote[d][f], t.md5_hash, err)
             THEN /\ proc' = SetTask(p, f, [t1 EXCEPT !.st = "uploaded"])
                  /\ stats' = Bump(stats, "uploaded_files", 1)
                  /\ confirmed' = confirmed \cup {<<d, f, t.md5_hash>>}
             ELSE /\ proc' = SetTask(p, f, [t1 EXCEPT !.st = "failed"])
                  /\ stats' = Bump(stats, "errors", 1)
                  /\ UNCHANGED confirmed
    /\ upload_semaphore' = Release(upload_semaphore)
    /\ UNCHANGED <<fs, backup_info, remote, last, nrecons, nchanges, call>>

\* The position of f in the order _upload_files awaits its tasks.
Earlier(p, f) ==
    {g \in NameSet : \E i, j \in 1..Len(proc[p].files_to_upload) :
        i < j /\ proc[p].files_to_upload[i] = g /\ proc[p].files_to_upload[j] = f}

\* asyncio.wait_for(task, timeout=300) expires for the task being awaited:
\* the task is cancelled wherever it is suspended, and leaving the
\* `async with` gives its permit back.
Timeout(p, f) ==
    /\ proc[p].task[f].st \in {"waiting"} \cup Holding
    /\ \A g \in Earlier(p, f) : proc[p].task[g].st \in Final
    /\ proc' = SetTask(p, f, [NoTask EXCEPT !.st = "timeout"])
    /\ upload_semaphore' = IF proc[p].task[f].st \in Holding
                           THEN Release(upload_semaphore) ELSE upload_semaphore
    /\ UNCHANGED <<fs, backup_info, remote, stats, last, confirmed, nrecons, nchanges, call>>

\* FileListener._update_backup_info: open(..., "w") and json.dump inside a
\* try whose except only logs.  The write succeeds ("written"), open raises
\* and the file stays as it was ("refused"), or json.dump raises after open
\* truncated the file and leaves it without valid JSON ("torn").
WriteOutcomes == {"written", "refused", "torn"}

UpdateBackupInfo(info, backup_files, outcome) ==
    IF outcome = "written" THEN [state |-> "valid", files |-> backup_files]
    ELSE IF outcome = "torn" THEN CorruptBackupInfo
    ELSE info

\* Mutant of _upload_files: a task cancelled by the timeout counts as
\* uploaded.
UploadedFiles_WithTimedOut(p) ==
    {f \in NameSet : proc[p].task[f].st \in Succeeded \cup {"timeout"}}

\* The candidates _upload_files returns as uploaded.
UploadedFiles(p) == {f \in NameSet : proc[p].task[f].st \in Succeeded}

\* _process_current_folder, step 5, once every upload task has been awaited.
Commit(p) ==
    /\ proc[p].pc = "uploading"
    /\ \A f \in NameSet : proc[p].task[f].st \in Final \cup {"none"}
    /\ LET d == proc[p].folder
           existing == proc[p].existing
           current == proc[p].current
           todo == proc[p].files_to_upload
           uploaded_files == UploadedFiles(p)
           lost == Range(todo) \ uploaded_files
           hist(w) == [done |-> TRUE, ok |-> uploaded_files, failed |-> lost,
                       snap |-> proc[p].snap, solo |-> proc[p].solo,
                       quiet |-> proc[p].quiet, wrote |-> w]
       IN  /\ IF uploaded_files # {}
              THEN \E outcome \in WriteOutcomes :
                     /\ backup_info' = [backup_info EXCEPT ![d] =
                            UpdateBackupInfo(@, UpdatedBackupInfo(existing, current, todo, uploaded_files), outcome)]
                     /\ last' = [last EXCEPT ![d] = hist(outcome = "written")]
              ELSE IF todo # <<>>
              THEN /\ UNCHANGED backup_info
                   /\ last' = [last EXCEPT ![d] = hist(TRUE)]
              ELSE IF current # existing
              THEN \E outcome \in WriteOutcomes :
                     /\ backup_info' = [backup_info EXCEPT ![d] = UpdateBackupInfo(@, current, outcome)]
                     /\ last' = [last EXCEPT ![d] = hist(outcome = "written")]
              ELSE /\ UNCHANGED backup_info
                   /\ last' = [last EXCEPT ![d] = hist(TRUE)]
           /\ stats' = Bump(stats, "errors", Cardinality(lost))
    /\ proc' = [proc EXCEPT ![p] = IdleProc]
    /\ UNCHANGED <<fs, remote, upload_semaphore, confirmed, nrecons, nchanges, call>>

Next ==
    \/ \E d \in Dirs, f \in NameSet, c \in FileStates : FsChange(d, f, c)
    \/ \E p \in Procs, d \in Dirs : Scan(p, d)
    \/ \E p \in Procs, f \in NameSet : Acquire(p, f)
    \/ \E p \in Procs, f \in NameSet : CheckRemote(p, f)
    \/ \E p \in Procs, f \in NameSet : UploadFile(p, f)
    \/ \E p \in Procs, f \in NameSet : Verify(p, f)
    \/ \E p \in Procs, f \in NameSet : Timeout(p, f)
    \/ \E p \in Procs : Commit(p)

Spec == Init /\ [][Next]_vars

TypeOK ==
    /\ upload_semaphore \in 0..UploadPermits
    /\ \A d \in Dirs : \A f \in NameSet :
         /\ fs[d][f] \in FileStates
         /\ remote[d][f] \in Hashes \cup {None}
         /\ backup_info[d].files[f] \in Hashes \cup {None}

\* ------------------------------------ the diff step as a pure function
\* Every pair of a current fingerprint set and a previous manifest.
DiffInputs == [NameSet -> Hashes \cup {None}]

InitDiff ==
    /\ FreshWorld
    /\ InitListener
    /\ stats = ZeroStats(FALSE)
    /\ \E current \in DiffInputs, existing \in DiffInputs :
         call = [fn |-> "determine", current |-> current, existing |-> existing,
                 result |-> <<>>, done |-> FALSE]

\* files_to_upload = self._determine_files_to_upload(current_files, existing_backup_info)
DiffCall ==
    /\ ~call.done
    /\ call' = [call EXCEPT !.result = DetermineFilesToUpload(call.current, call.existing),
                            !.done = TRUE]
    /\ UNCHANGED <<fs, backup_info, remote, upload_semaphore, proc, stats, last,
                   confirmed, nrecons, nchanges>>

SpecDiff == InitDiff /\ [][DiffCall]_vars

\* ---------------------------------------------------------------------
\* Vocabulary of the properties.
\* ---------------------------------------------------------------------
\* The entry a load of the manifest yields for f.
Entry(info, f) == LoadBackupInfo(info)[f]

Reconciling(p) == proc[p].pc = "uploading"

Todo(p) == Range(proc[p].files_to_upload)

\* The latest committed reconciliation of the folder p reconciles.
Prev(p) == last[proc[p].folder]

\* p reconciles a folder after an earlier reconciliation of it, one after
\* the other: neither overlapped another reconciliation of the folder, so
\* Prev(p) is the one that committed before p scanned.
After(p) == Reconciling(p) /\ proc[p].solo /\ Prev(p).done /\ Prev(p).solo

\* The step in which p commits.
Commits(p) == proc[p].pc = "uploading" /\ proc'[p].pc = "idle"

\* f was created, or its bytes changed, between the scan of Prev(p) and p's.
Changed(p, f) ==
    /\ proc[p].snap[f] \in Contents
    /\ Prev(p).snap[f] \in Contents \cup {Absent}
    /\ Prev(p).snap[f] # proc[p].snap[f]

\* The upload tasks that hold a permit of the upload semaphore.
InFlight == {pf \in Procs \X NameSet : proc[pf[1]].task[pf[2]].st \in Holding}

\* ---------------------------------------------------------------- C1
C1_State ==
    \A p \in Procs : After(p) =>
        \A f \in Prev(p).failed :
            proc[p].snap[f] = Prev(p).snap[f] => f \in Todo(p)

\* torn: the commit may leave the manifest unreadable.
C1_Step(torn) ==
    \A p \in Procs : Commits(p) =>
        \A f \in Todo(p) \ UploadedFiles(p) :
            LET before == Entry(backup_info[proc[p].folder], f)
                after == Entry(backup_info'[proc[p].folder], f)
                kept == ~(torn /\ backup_info'[proc[p].folder].state = "corrupt")
            IN  /\ kept => after \in {before, proc[p].existing[f]}
                /\ kept /\ proc[p].solo => after = before
                /\ after = proc[p].current[f] => before = proc[p].current[f]

\* C1 as stated: a candidate whose upload failed (returned failure, raised
\* or timed out) is not recorded by the commit of its reconciliation, the
\* entry of the file is left as it was (as the reconciliation loaded it,
\* when another reconciliation wrote in between), and the file is a
\* candidate again at the next reconciliation of the folder when its content
\* is still the same.
C1_Original == []C1_State /\ [][C1_Step(FALSE)]_vars

\* C1, amended: ... the entry of the file is left as it was unless the write
\* of the manifest fails midway and leaves the manifest unreadable, without
\* an entry for any file; in no case does the entry become the new
\* fingerprint, and the file is a candidate again at the next reconciliation.
C1_RetryByOmission == []C1_State /\ [][C1_Step(TRUE)]_vars

C1_Witness ==
    \E p \in Procs : After(p) /\
        \E f \in Prev(p).failed :
            /\ proc[p].snap[f] = Prev(p).snap[f]
            /\ f \in Todo(p)
            /\ Entry(backup_info[proc[p].folder], f) # proc[p].current[f]

\* ---------------------------------------------------------------- C2
\* C2 as stated: of two reconciliations of a folder that run one after the
\* other with no change to its files in between, the second invokes upload
\* for no file (no task of it gets as far as upload_file's transfer).
C2_Original ==
    \A p \in Procs : After(p) /\ Prev(p).quiet =>
        \A f \in NameSet : proc[p].task[f].st \notin {"verifying", "uploaded"}

\* C2, amended: when moreover no candidate of the first failed and its
\* write of the manifest did not fail, the second has no candidate at all.
C2_NoUploadWhenSettled ==
    \A p \in Procs :
        After(p) /\ Prev(p).quiet /\ Prev(p).failed = {} /\ Prev(p).wrote =>
            /\ proc[p].files_to_upload = <<>>
            /\ \A f \in NameSet : proc[p].task[f].st = "none"

C2_Witness ==
    \E p \in Procs :
        /\ After(p) /\ Prev(p).quiet /\ Prev(p).failed = {} /\ Prev(p).wrote
        /\ Prev(p).ok # {}
        /\ proc[p].files_to_upload = <<>>

\* ---------------------------------------------------------------- C3
C3_CommitRecords(p, needWrite) ==
    Commits(p) /\ After(p) /\ (needWrite => last'[proc[p].folder].wrote) =>
        \A f \in UploadedFiles(p) :
            Changed(p, f) =>
                Entry(backup_info'[proc[p].folder], f) = md5(proc[p].snap[f])

C4_Original ==
    \A p \in Procs :
        After(p) /\ Prev(p).quiet /\ Prev(p).ok # {} /\ Prev(p).failed # {} =>
            Todo(p) = Prev(p).failed

\* C4, amended: ... provided the first reconciliation's write of the
\* manifest did not fail.
C4_RetryExactlyFailed ==
    \A p \in Procs :
        After(p) /\ Prev(p).quiet /\ Prev(p).ok # {} /\ Prev(p).failed # {}
                 /\ Prev(p).wrote =>
            Todo(p) = Prev(p).failed

C4_Witness ==
    \E p \in Procs :
        /\ After(p) /\ Prev(p).quiet /\ Prev(p).ok # {} /\ Prev(p).failed # {}
        /\ Prev(p).wrote
        /\ Todo(p) = Prev(p).failed

\* ---------------------------------------------------------------- C5
\* C5: every entry f -> h of a manifest was written after the remote store
\* was confirmed (a successful upload, a positive existence check) to hold
\* the object of f with fingerprint h.
C5_ManifestConfirmed ==
    \A d \in Dirs : \A f \in NameSet :
        Entry(backup_info[d], f) # None => <<d, f, Entry(backup_info[d], f)>> \in confirmed

\* ---------------------------------------------------------------- C6
\* C6: the diff lists a name iff it is in the current fingerprint set and
\* the previous manifest has no entry for it or another fingerprint; no name
\* is listed twice.
C6_DiffIff ==
    call.done =>
        /\ \A f \in NameSet :
             f \in Range(call.result) <=>
                 /\ call.current[f] # None
                 /\ (call.existing[f] = None \/ call.existing[f] # call.current[f])
        /\ \A i, j \in 1..Len(call.result) : call.result[i] = call.result[j] => i = j

C6_Witness ==
    /\ call.done
    /\ call.existing["a.txt"] = None /\ "a.txt" \in Range(call.result)
    /\ call.existing["b.txt"] # None /\ call.current["b.txt"] = call.existing["b.txt"]
    /\ "b.txt" \notin Range(call.result)

\* ---------------------------------------------------------------- C7
\* C7: the uploads in flight, over all folders and both paths, never exceed
\* the permits of the semaphore, whose free permits account for them.
C7_UploadBound ==
    /\ Cardinality(InFlight) <= UploadPermits
    /\ upload_semaphore = UploadPermits - Cardinality(InFlight)

C7_Witness ==
    /\ Cardinality(InFlight) = UploadPermits
    /\ <<"scan", "a.txt">> \in InFlight /\ <<"live", "a.txt">> \in InFlight
    /\ proc["scan"].folder # proc["live"].folder
    /\ \E p \in Procs, f \in NameSet : proc[p].task[f].st = "waiting"

\* ---------------------------------------------------------------- C25
\* Both coroutines reconcile one folder, never backed up and not changing,
\* under the timer of asyncio.wait_for: the wait for a task that is being
\* awaited ends after 300 seconds at the latest.
GateFolder == "docs"

InitGate ==
    /\ FreshWorld
    /\ InitListener
    /\ stats = ZeroStats(FALSE)
    /\ call = NoCall

NextGate ==
    \/ \E p \in Procs : Scan(p, GateFolder)
    \/ \E p \in Procs, f \in NameSet : Acquire(p, f)
    \/ \E p \in Procs, f \in NameSet : CheckRemote(p, f)
    \/ \E p \in Procs, f \in NameSet : UploadFile(p, f)
    \/ \E p \in Procs, f \in NameSet : Verify(p, f)
    \/ \E p \in Procs, f \in NameSet : Timeout(p, f)
    \/ \E p \in Procs : Commit(p)

SpecGate ==
    /\ InitGate /\ [][NextGate]_vars
    /\ \A p \in Procs, f \in Files[GateFolder] : WF_vars(Timeout(p, f))

\* A task that held a permit and holds none any more has given it back.
C25_Step ==
    \A p \in Procs, f \in NameSet :
        proc[p].task[f].st \in Holding /\ proc'[p].task[f].st \notin Holding
        => /\ proc'[p].task[f].st \in Final
           /\ upload_semaphore' = upload_semaphore + 1

\* C25: a task that holds a permit of the upload semaphore gives it back
\* in the step in which it ends, however it ends; when no task holds a
\* permit every permit is free; and a task that waits for a permit does
\* not wait forever.
C25_PermitsReturned ==
    /\ [][C25_Step]_vars
    /\ [](InFlight = {} => upload_semaphore = UploadPermits)
    /\ \A p \in Procs, f \in Files[GateFolder] :
          (proc[p].task[f].st = "waiting") ~> (proc[p].task[f].st # "waiting")

\* A task was cancelled by the timeout while it held a permit, another
\* failed, and every permit is free again.
C25_Witness ==
    /\ InFlight = {} /\ upload_semaphore = UploadPermits
    /\ \E p \in Procs :
          /\ Reconciling(p)
          /\ proc[p].task["a.txt"].st = "timeout"
          /\ proc[p].task["b.txt"].st = "failed"

\* ---------------------------------------------------------------- C26
\* C26: the timeout ends one task and touches no other; the task stays
\* cancelled until the commit, which comes only when every candidate has
\* been awaited; the commit counts the file as failed, not as uploaded, and
\* a manifest it writes in full keeps for the file the entry it had before.
C26_Step ==
    \A p \in Procs :
        /\ \A f \in NameSet :
              /\ proc[p].task[f].st = "timeout" /\ ~Commits(p)
                 => proc'[p].task[f].st = "timeout"
              /\ proc[p].task[f].st # "timeout" /\ proc'[p].task[f].st = "timeout"
                 => /\ \A g \in NameSet \ {f} : proc'[p].task[g] = proc[p].task[g]
                    /\ \A q \in Procs \ {p} : proc'[q] = proc[q]
                    /\ UNCHANGED <<backup_info, remote>>
        /\ Commits(p) =>
              \A f \in Todo(p) :
                 /\ proc[p].task[f].st \in Final
                 /\ proc[p].task[f].st = "timeout"
                    => /\ f \in last'[proc[p].folder].failed
                       /\ f \notin last'[proc[p].folder].ok
                       /\ /\ backup_info'[proc[p].folder] # backup_info[proc[p].folder]
                          /\ backup_info'[proc[p].folder].state = "valid"
                          => Entry(backup_info'[proc[p].folder], f) = proc[p].existing[f]

C26_TimeoutIsFailure == [][C26_Step]_vars

\* The first candidate was cancelled by the timeout and the second, awaited
\* after it, was uploaded; the commit recorded the second only.
C26_Witness ==
    /\ last["docs"].done /\ last["docs"].solo /\ last["docs"].wrote
    /\ last["docs"].failed = {"a.txt"} /\ last["docs"].ok = {"b.txt"}
    /\ \E p \in Procs :
          /\ Reconciling(p) /\ proc[p].folder = "docs" /\ proc[p].solo
          /\ proc[p].task["a.txt"].st = "timeout"
          /\ Entry(backup_info["docs"], "b.txt") = md5("x")
          /\ Entry(backup_info["docs"], "a.txt") = None

\* ---------------------------------------------------------------- C27
\* The commit of p writes the manifest, and the write does not fail.
WritesManifest(p) ==
    /\ Commits(p)
    /\ \/ UploadedFiles(p) # {}
       \/ proc[p].files_to_upload = <<>> /\ proc[p].current # proc[p].existing
    /\ last'[proc[p].folder].wrote

\* The files of p's scan that are not candidates.
Unchanged(p) == {f \in NameSet : proc[p].current[f] # None /\ f \notin Todo(p)}

AbsentEntries(p) == {f \in NameSet : proc[p].existing[f] # None /\ proc[p].current[f] = None}

\* The previous reconciliation of p's folder uploaded a file, did not find
\* f, wrote the manifest and kept the entry of f in it: p loaded it.
KeptByPrev(p, f) ==
    /\ After(p)
    /\ Prev(p).ok # {} /\ Prev(p).wrote
    /\ Prev(p).snap[f] \in {Absent, Locked}
    /\ f \in AbsentEntries(p)

\* C28: the commits that write a manifest all treat the entry of a file
\* absent from the scan in one way, whether the pass uploaded a file or had
\* nothing to upload: an entry that the previous commit of the folder kept
\* is not dropped by the next.
C28_SameHandling ==
    [][\A p \in Procs, f \in NameSet :
          KeptByPrev(p, f) /\ WritesManifest(p)
          => backup_info'[proc[p].folder].files[f] = proc[p].existing[f]]_vars

\* ---------------------------------------------------------------- C30
\* q commits last of two reconciliations of one folder that overlapped,
\* and the folder's files have not changed since the first of them scanned.
CommitsLastOfTwo(q) ==
    /\ Commits(q)
    /\ ~proc[q].solo /\ proc[q].quiet
    /\ Prev(q).done /\ ~Prev(q).solo /\ Prev(q).quiet
    /\ \A r \in Procs \ {q} : ~Active(r, proc[q].folder)

\* The manifest q computes in step 5 of _process_current_folder from its
\* own scan and the manifest it loaded.
ComputedBy(q) ==
    [f \in NameSet |->
        IF f \in UploadedFiles(q) THEN proc[q].current[f]
        ELSE IF f \in Unchanged(q) THEN proc[q].existing[f]
        ELSE IF UploadedFiles(q) # {} THEN proc[q].existing[f]
        ELSE None]

\* The candidates a reconciliation of d would find.
Candidates(d) ==
    Range(DetermineFilesToUpload(ScanCurrentFiles(Listing(d)), LoadBackupInfo(backup_info[d])))

\* The manifest is the one q computed from its own scan (nothing of the
\* earlier commit is merged in) or, when q writes none, stays as the
\* earlier commit left it.
C30_LastWrite(q) ==
    LET d == proc[q].folder
    IN  IF WritesManifest(q)
        THEN backup_info'[d] = [state |-> "valid", files |-> ComputedBy(q)]
        ELSE backup_info'[d] \in {backup_info[d], CorruptBackupInfo}

\* A file the earlier commit had uploaded whose entry is not its current
\* fingerprint any more is a candidate of the next reconciliation.
C30_LostIsCandidate(q) ==
    \A d \in Dirs :
       d = proc[q].folder =>
          \A f \in Prev(q).ok :
             fs'[d][f] \in Contents /\ Entry(backup_info'[d], f) # md5(fs'[d][f])
             => f \in Candidates(d)'

CommitsOneOfTwo(q) == Commits(q) /\ ~proc[q].solo /\ proc[q].quiet

C8_Original ==
    [][\A p \in Procs : \A f \in NameSet :
          /\ proc[p].task[f].st = "checking"
          /\ remote[proc[p].folder][f] = proc[p].task[f].local_md5
          /\ proc'[p].task[f].st \in {"skipped", "uploading", "failed"}
          => proc'[p].task[f].st = "skipped"]_vars

C8_Step ==
    \A p \in Procs : \A f \in NameSet :
        /\ proc[p].task[f].st = "checking" /\ proc'[p].task[f].st = "uploading"
                /\ proc'[p].task[f].why = "miss"
           => remote[proc[p].folder][f] # proc[p].task[f].local_md5
        /\ proc[p].task[f].st = "checking" /\ proc'[p].task[f].st = "skipped"
           => /\ remote[proc[p].folder][f] = proc[p].task[f].local_md5
              /\ remote' = remote
        /\ Commits(p) /\ proc[p].task[f].st = "skipped" /\ last'[proc[p].folder].wrote
           => Entry(backup_info'[proc[p].folder], f) = proc[p].current[f]

\* C8, amended: when the existence check is answered without a transport
\* error, a candidate whose object is in the remote store with the freshly
\* computed fingerprint is skipped: upload is not invoked, the candidate
\* counts as a success and commit records it when its write does not fail.
C8_SkipWhenPresent == [][C8_Step]_vars

C8_Witness ==
    \E p \in Procs, f \in NameSet :
        /\ proc[p].task[f].st = "skipped"
        /\ remote[proc[p].folder][f] = proc[p].current[f]

\* ---------------------------------------------------------------- C9
\* C9: a name the manifest has and the scan has not (a file deleted locally)
\* is no candidate, and no step removes an object from the remote store.
C9_DeletionsNotPropagated ==
    /\ [](\A p \in Procs : Reconciling(p) =>
            \A f \in NameSet :
                proc[p].existing[f] # None /\ proc[p].current[f] = None => f \notin Todo(p))
    /\ [][\A d \in Dirs : \A f \in NameSet :
            remote[d][f] # None => remote'[d][f] # None]_vars

C9_Witness ==
    \E p \in Procs, f \in NameSet :
        /\ Reconciling(p)
        /\ proc[p].existing[f] # None
        /\ proc[p].snap[f] = Absent
        /\ remote[proc[p].folder][f] # None
        /\ Todo(p) # {}

\* ---------------------------------------------------------------- C10
\* C10: upload_file returns True only after reading the object back and
\* finding the expected fingerprint, whatever the size of the file; a
\* read-back that differs makes it return False.
C10_VerifiedUpload ==
    [][\A p \in Procs : \A f \in NameSet :
          /\ proc'[p].task[f].st = "uploaded" /\ proc[p].task[f].st # "uploaded"
             => /\ proc[p].task[f].st = "verifying"
                /\ remote[proc[p].folder][f] = proc[p].task[f].md5_hash
          /\ proc[p].task[f].st = "verifying"
                /\ remote[proc[p].folder][f] # proc[p].task[f].md5_hash
             => proc'[p].task[f].st \in {"verifying", "failed", "timeout"}]_vars

\* ---------------------------------------------------------------- C15
C15_State ==
    /\ ShouldIgnoreFile(Chars[backup_info_filename])
    /\ ShouldIgnoreFile(Chars[".DS_Store"])
    /\ \A f \in NameSet : ShouldIgnoreFile(Chars[f]) =>
         /\ \A p \in Procs : /\ proc[p].current[f] = None
                             /\ f \notin Todo(p)
                             /\ proc[p].task[f].st = "none"
         /\ \A d \in Dirs : /\ backup_info[d].files[f] = None
                            /\ remote[d][f] = None

C15_Step ==
    \A p \in Procs :
        /\ Commits(p) /\ proc[p].folder = "pics" /\ proc[p].solo
        /\ proc[p].snap["a.txt"] \in Contents /\ proc[p].snap[".DS_Store"] \in Contents
        /\ UploadedFiles(p) = Todo(p)
        /\ last'["pics"].wrote
        => /\ backup_info'["pics"].state = "valid"
           /\ backup_info'["pics"].files =
                [f \in NameSet |-> IF f = "a.txt" THEN md5(proc[p].snap["a.txt"]) ELSE None]

\* C15: the manifest file and .DS_Store are ignored by the scan; an ignored
\* name is never in a current fingerprint set, never a candidate, never a key
\* of a manifest and never an object of the remote store; a reconciliation of
\* a folder holding a.txt and .DS_Store whose uploads and write succeed (no
\* other reconciliation of the folder running meanwhile) leaves a manifest
\* of exactly a.txt.
C15_IgnoredNeverBackedUp == []C15_State /\ [][C15_Step]_vars

C15_Witness ==
    /\ fs["pics"][".DS_Store"] \in Contents
    /\ Listing("pics")[backup_info_filename] = ManifestBytes
    /\ backup_info["pics"].state = "valid"
    /\ backup_info["pics"].files["a.txt"] # None
    /\ \E p \in Procs : Reconciling(p) /\ proc[p].folder = "pics"

\* ---------------------------------------------------------------- C16
\* C16: a reconciliation that finds the manifest missing or unreadable loads
\* the empty mapping and goes on: its candidates are all the files of its
\* current fingerprint set.
C16_BadManifestIsEmpty ==
    [][\A p \in Procs :
          /\ proc[p].pc = "idle" /\ proc'[p].pc = "uploading"
          /\ backup_info[proc'[p].folder].state \in {"missing", "corrupt"}
          => /\ proc'[p].existing = EmptyFiles
             /\ Range(proc'[p].files_to_upload) =
                    {f \in NameSet : proc'[p].current[f] # None}]_vars

C16_Witness ==
    \E p \in Procs :
        /\ Reconciling(p) /\ proc[p].solo
        /\ backup_info[proc[p].folder].state = "corrupt"
        /\ proc[p].existing = EmptyFiles
        /\ Cardinality(Todo(p)) = 2

\* ---------------------------------------------------------------- C17
\* The regular files of its folder that p's scan listed and did not ignore.
OwnFiles(p) ==
    {f \in NameSet : proc[p].snap[f] \in Contents \cup {Locked} /\ ~ShouldIgnoreFile(Chars[f])}

\* C17 as stated: the commit of the first reconciliation of a folder (it has
\* no manifest yet) leaves a manifest with one entry for each file directly
\* in the folder.
C17_Original ==
    [][\A p \in Procs :
          Commits(p) /\ backup_info[proc[p].folder].state = "missing"
          => /\ backup_info'[proc[p].folder].state = "valid"
             /\ \A f \in NameSet :
                  backup_info'[proc[p].folder].files[f] # None <=> f \in OwnFiles(p)]_vars

\* C17, amended: the commit creates the manifest when at least one candidate
\* was uploaded and the write does not fail, and then its entries are exactly
\* the uploaded files with the fingerprints of the scan (no entry for a
\* subfolder, an ignored file, or a file whose hashing or upload failed);
\* when no candidate was uploaded the folder stays without manifest.
C17_FirstManifest ==
    [][\A p \in Procs :
          Commits(p) /\ backup_info[proc[p].folder].state = "missing"
          => /\ UploadedFiles(p) # {} /\ last'[proc[p].folder].wrote
                => /\ backup_info'[proc[p].folder].state = "valid"
                   /\ backup_info'[proc[p].folder].files =
                        [f \in NameSet |-> IF f \in UploadedFiles(p)
                                           THEN proc[p].current[f] ELSE None]
                   /\ UploadedFiles(p) \subseteq OwnFiles(p)
             /\ UploadedFiles(p) = {}
                => backup_info'[proc[p].folder].state = "missing"]_vars

C17_Witness ==
    /\ last["docs"].done /\ last["docs"].wrote
    /\ last["docs"].ok = {"a.txt"} /\ last["docs"].failed = {"b.txt"}
    /\ fs["docs"]["pics"] = IsDir
    /\ backup_info["docs"].state = "valid"
    /\ backup_info["docs"].files["b.txt"] = None
    /\ backup_info["docs"].files["pics"] = None

\* ------------------------------- the S3 manager's calls as functions
InitS3 ==
    /\ FreshWorld
    /\ InitListener
    /\ stats = ZeroStats(FALSE)
    /\ \/ \E response \in HeadResponses, expected_md5 \in Hashes \cup {None} :
            call = [fn |-> "check_exists", response |-> response,
                    expected_md5 |-> expected_md5, state |-> Absent, large |-> FALSE,
                    put |-> FALSE, result |-> FALSE, contacted |-> FALSE, done |-> FALSE]
       \/ \E state \in FileStates, large \in BOOLEAN, put \in BOOLEAN,
             response \in HeadResponses :
            call = [fn |-> "upload_file", response |-> response,
                    expected_md5 |-> None, state |-> state, large |-> large,
                    put |-> put, result |-> FALSE, contacted |-> FALSE, done |-> FALSE]

\* await s3_manager.check_exists(s3_key, expected_md5)
CheckExistsCall ==
    /\ call.fn = "check_exists" /\ ~call.done
    /\ call' = [call EXCEPT !.result = check_exists(call.response, call.expected_md5),
                            !.contacted = TRUE, !.done = TRUE]
    /\ UNCHANGED <<fs, backup_info, remote, upload_semaphore, proc, stats, last,
                   confirmed, nrecons, nchanges>>

\* await s3_manager.upload_file(local_path, s3_key)
UploadFileCall ==
    /\ call.fn = "upload_file" /\ ~call.done
    /\ LET r == upload_file(call.state, call.large, call.put, call.response)
       IN  call' = [call EXCEPT !.result = r.result, !.contacted = r.contacted,
                                !.done = TRUE]
    /\ UNCHANGED <<fs, backup_info, remote, upload_semaphore, proc, stats, last,
                   confirmed, nrecons, nchanges>>

NextS3 == CheckExistsCall \/ UploadFileCall

SpecS3 == InitS3 /\ [][NextS3]_vars

\* ---------------------------------------------------------------- C11
\* C11: check_exists(key, fp) is true iff the object is there and its
\* md5-checksum metadata equals fp or, without that metadata, its ETag is
\* not a multipart one and equals fp.
C11_ExistsIffMatch ==
    call.fn = "check_exists" /\ call.done /\ call.expected_md5 # None =>
        (call.result <=>
            /\ call.response.kind = "ok"
            /\ \/ call.response.metadata = call.expected_md5
               \/ /\ call.response.metadata = None
                  /\ ~HasDash(call.response.etag)
                  /\ call.response.etag = SimpleETag(call.expected_md5))

\* ---------------------------------------------------------------- C12
C12_Step(errs) ==
    \A p \in Procs : \A f \in NameSet :
        proc'[p].task[f].st = "uploaded" /\ proc[p].task[f].st # "uploaded" =>
            LET d == proc[p].folder
                true_md5 == IF proc[p].task[f].st = "verifying"
                            THEN proc[p].task[f].md5_hash
                            ELSE CalculateMd5(fs[d][f])
            IN  \A h \in Hashes : \A err \in errs :
                    CheckExists(remote'[d][f], h, err) <=> h = true_md5

C13_ErrorsAreFalse ==
    call.done =>
        /\ call.result \in BOOLEAN
        /\ call.fn = "check_exists" /\ call.response.kind # "ok" => ~call.result
        /\ call.fn = "upload_file" /\ ~call.put => ~call.result
        /\ call.fn = "upload_file" /\ ~call.large /\ call.response.kind # "ok" => ~call.result
        /\ call.fn = "upload_file" /\ call.state = Absent
              => ~call.result /\ ~call.contacted

C13_Witness ==
    /\ call.done /\ call.fn = "upload_file"
    /\ call.state \in Contents /\ call.put /\ ~call.large
    /\ call.response = ClientError
    /\ ~call.result /\ call.contacted

\* ------------------------------------------------- the folder watcher
\* config.watch_folders and the places an event can come from, as path
\* components: a watch root, a folder below one, and folders under no root.
watch_folders == {<<"home", "docs">>, <<"home", "pics">>}
EventFolders == {<<"home", "docs">>, <<"home", "docs", "pics">>, <<"home", "pics">>,
                 <<"home", "other">>, <<"tmp">>}
EventNames == {"a.txt", ".hidden", "x.tmp", "Thumbs.db", "y.bak"}
EventTypes == {"created", "modified", "deleted", "moved"}

\* FileChangeHandler.ignore_patterns, the same selection as above.
handler_ignore_patterns ==
    {<<".", "D", "S", "_", "S", "t", "o", "r", "e">>,
     <<"T", "h", "u", "m", "b", "s", ".", "d", "b">>,
     <<".", "t", "m", "p">>,
     <<".", "g", "i", "t">>,
     <<"*", ".", "b", "a", "k">>,
     <<".", "m", "i", "l", "o", "_", "b", "a", "c", "k", "u", "p", ".", "i", "n", "f", "o">>}

\* str.endswith
EndsWith(str, suffix) ==
    /\ Len(suffix) <= Len(str)
    /\ \A i \in 1..Len(suffix) : str[Len(str) - Len(suffix) + i] = suffix[i]

\* Mutant of the handler's _should_ignore_file: no event is ignored for its
\* file name.
HandlerShouldIgnoreFile_Never(filename) == FALSE

\* FileChangeHandler._should_ignore_file: a hidden name, a name that ends
\* with a dot pattern, or an exact member of the patterns.
HandlerShouldIgnoreFile(filename) ==
    \/ StartsWith(filename, <<".">>)
    \/ \E pattern \in handler_ignore_patterns :
         \/ StartsWith(pattern, <<".">>) /\ EndsWith(filename, pattern)
         \/ pattern = filename

\* Mutant: every type of event is handled.
HandledEventType_Any(event_type) == TRUE

\* if event.event_type not in ['created', 'modified']: return
HandledEventType(event_type) == event_type \in {"created", "modified"}

\* file_path.relative_to(watch_folder) does not raise for some watch folder.
InWatchFolder(folder) == \E w \in watch_folders : StartsWith(folder, w)

InitWatch ==
    /\ FreshWorld
    /\ InitListener
    /\ stats = ZeroStats(FALSE)
    /\ \E folder \in EventFolders, name \in EventNames, event_type \in EventTypes,
          is_directory \in BOOLEAN, exists \in BOOLEAN :
         call = [fn |-> "on_any_event", folder |-> folder, name |-> name,
                 event_type |-> event_type, is_directory |-> is_directory,
                 exists |-> exists, loop_closed |-> FALSE, pc |-> "event",
                 reconciled |-> {}]

\* Mutant: an exception of call_soon_threadsafe leaves on_any_event.
ScheduleOutcome_Raises(loop_closed) == IF loop_closed THEN "raised" ELSE "scheduled"

\* self.event_loop.call_soon_threadsafe(asyncio.create_task, ...) inside the
\* try of on_any_event: on a closed loop it raises RuntimeError, which the
\* except logs.
ScheduleOutcome(loop_closed) == IF loop_closed THEN "dropped" ELSE "scheduled"

\* FileChangeHandler.on_any_event, on the observer's thread: the event is
\* dropped or _process_changed_file is scheduled on the event loop.
OnAnyEvent ==
    /\ call.fn = "on_any_event" /\ call.pc = "event"
    /\ call' = [call EXCEPT !.pc =
                  IF call.is_directory THEN "dropped"
                  ELSE IF ~HandledEventType(call.event_type) THEN "dropped"
                  ELSE IF HandlerShouldIgnoreFile(Chars[call.name]) THEN "dropped"
                  ELSE IF ~call.exists THEN "dropped"
                  ELSE ScheduleOutcome(call.loop_closed)]
    /\ UNCHANGED <<fs, backup_info, remote, upload_semaphore, proc, stats, last,
                   confirmed, nrecons, nchanges>>

\* FileChangeHandler._process_changed_file, a task of the event loop:
\* _process_current_folder of file_path.parent when the file is under a
\* watch folder.
ProcessChangedFile ==
    /\ call.fn = "on_any_event" /\ call.pc = "scheduled"
    /\ call' = [call EXCEPT !.pc = "done",
                            !.reconciled = IF InWatchFolder(call.folder)
                                           THEN {call.folder} ELSE {}]
    /\ UNCHANGED <<fs, backup_info, remote, upload_semaphore, proc, stats, last,
                   confirmed, nrecons, nchanges>>

NextWatch == OnAnyEvent \/ ProcessChangedFile

SpecWatch == InitWatch /\ [][NextWatch]_vars

InitDispatch ==
    /\ FreshWorld
    /\ InitListener
    /\ stats = ZeroStats(FALSE)
    /\ \E folder \in EventFolders, name \in EventNames, event_type \in EventTypes,
          is_directory \in BOOLEAN, exists \in BOOLEAN, loop_closed \in BOOLEAN :
         call = [fn |-> "on_any_event", folder |-> folder, name |-> name,
                 event_type |-> event_type, is_directory |-> is_directory,
                 exists |-> exists, loop_closed |-> loop_closed, pc |-> "event",
                 reconciled |-> {}]

SpecDispatch == InitDispatch /\ [][NextWatch]_vars

\* The event passes every test of on_any_event.
Qualifies ==
    /\ ~call.is_directory
    /\ call.event_type \in {"created", "modified"}
    /\ ~HandlerShouldIgnoreFile(Chars[call.name])
    /\ call.exists

\* C21: on_any_event reconciles nothing itself: when it returns no folder
\* has been reconciled, a qualifying event has been scheduled on the event
\* loop (or dropped when scheduling failed), any other event dropped, and
\* no exception has left the handler.
C21_Step ==
    call.pc = "event" =>
        /\ call'.reconciled = {}
        /\ call'.pc = IF Qualifies /\ ~call.loop_closed THEN "scheduled" ELSE "dropped"

C21_ScheduledNotInline ==
    /\ [](call.pc # "raised")
    /\ [](call.pc \in {"event", "scheduled", "dropped"} => call.reconciled = {})
    /\ [][C21_Step]_vars

\* A qualifying event whose scheduling failed was dropped.
C21_Witness ==
    /\ Qualifies /\ call.loop_closed /\ InWatchFolder(call.folder)
    /\ call.pc = "dropped"

\* ---------------------------------------------------------------- C19
\* C19: a reconciliation of a folder takes its previous entries from that
\* folder's manifest alone; the manifest of a folder changes only in the
\* commit of a reconciliation of that folder; and a commit that has failed
\* uploads, or whose scan could not hash a file, leaves every other
\* folder's manifest and the other coroutine as they were and returns its
\* own coroutine to idle, from where the next folder is reconciled.
C19_Step ==
    /\ \A p \in Procs :
          proc[p].pc = "idle" /\ proc'[p].pc = "uploading"
          => /\ proc'[p].existing =
                    (IF backup_info[proc'[p].folder].state = "valid"
                     THEN backup_info[proc'[p].folder].files ELSE EmptyFiles)
             /\ backup_info' = backup_info
    /\ \A d \in Dirs :
          backup_info'[d] # backup_info[d]
          => \E p \in Procs : Commits(p) /\ proc[p].folder = d
    /\ \A p \in Procs :
          /\ Commits(p)
          /\ \/ last'[proc[p].folder].failed # {}
             \/ \E f \in NameSet : proc[p].snap[f] = Locked
          => /\ \A d \in Dirs \ {proc[p].folder} :
                    backup_info'[d] = backup_info[d] /\ last'[d] = last[d]
             /\ \A q \in Procs \ {p} : proc'[q] = proc[q]
             /\ proc'[p] = IdleProc

C19_OwnManifestOnly == [][C19_Step]_vars

\* After a reconciliation of docs with a failed upload, pics is reconciled
\* from its own, untouched manifest.
C19_Witness ==
    /\ last["docs"].done /\ last["docs"].failed # {}
    /\ backup_info["pics"] = [state |-> "valid", files |-> BackedUp("pics")]
    /\ \E p \in Procs :
          /\ Reconciling(p) /\ proc[p].folder = "pics"
          /\ proc[p].existing = backup_info["pics"].files

\* ------------------------------------------------------- the remote key
\* A path is the sequence of its components below the anchor of the
\* platform; str(path) joins them with os.sep.
KeyPlatforms == {"posix", "windows"}
Sep(platform) == IF platform = "windows" THEN "\\" ELSE "/"
Anchor(platform) == IF platform = "windows" THEN <<"C", ":", "\\">> ELSE <<"/">>

RECURSIVE Join(_, _)
Join(parts, sep) ==
    IF parts = <<>> THEN <<>>
    ELSE IF Len(parts) = 1 THEN Chars[parts[1]]
    ELSE Chars[parts[1]] \o <<sep>> \o Join(Tail(parts), sep)

\* str(path) of an absolute and of a relative path
StrAbsolute(path, platform) == Anchor(platform) \o Join(path, Sep(platform))
StrRelative(path, platform) == IF path = <<>> THEN <<".">> ELSE Join(path, Sep(platform))

\* str.replace("\\", "/")
ReplaceBackslashes(str) == [i \in 1..Len(str) |-> IF str[i] = "\\" THEN "/" ELSE str[i]]

\* Path.relative_to: file_path below watch_folder, component by component.
IsRelativeTo(file_path, watch_folder) == StartsWith(file_path, watch_folder)
RelativeTo(file_path, watch_folder) ==
    SubSeq(file_path, Len(watch_folder) + 1, Len(file_path))

\* SimpleConfig.get_s3_name_for_folder
GetS3NameForFolder(folder_s3_mapping, folder_path) ==
    IF folder_path \in DOMAIN folder_s3_mapping THEN folder_s3_mapping[folder_path]
    ELSE Chars[folder_path[Len(folder_path)]]

\* FileListener._build_s3_key
BuildS3Key(file_path, folders, folder_s3_mapping, platform) ==
    LET hits == {i \in 1..Len(folders) : IsRelativeTo(file_path, folders[i])}
    IN  IF hits = {} THEN ReplaceBackslashes(StrAbsolute(file_path, platform))
        ELSE LET watch_folder == folders[CHOOSE i \in hits : \A j \in hits : i <= j]
                 relative_path == RelativeTo(file_path, watch_folder)
                 s3_folder_name == GetS3NameForFolder(folder_s3_mapping, watch_folder)
             IN  ReplaceBackslashes(s3_folder_name \o <<"/">> \o
                                    StrRelative(relative_path, platform))

\* The configurations and files the key is built for.  On Windows no
\* component of a path holds a backslash.
KeyWatchFolders ==
    {<< <<"home", "docs">>, <<"home">> >>,
     << <<"home">>, <<"home", "docs">> >>,
     << <<"home", "docs">>, <<"home", "pics">> >>}
KeyS3Names == {Chars["backup"], Chars["my\\docs"]}
KeyFiles ==
    {<<"home", "docs", "a.txt">>, <<"home", "docs", "sub", "a.txt">>,
     <<"home", "docs", "a\\b.txt">>, <<"home", "pics", "a.txt">>, <<"tmp", "a.txt">>}

InitKey ==
    /\ FreshWorld
    /\ InitListener
    /\ stats = ZeroStats(FALSE)
    /\ \E folders \in KeyWatchFolders, file_path \in KeyFiles, platform \in KeyPlatforms,
          named \in SUBSET {1}, s3_name \in KeyS3Names :
         /\ platform = "windows" => \A i \in 1..Len(file_path) : file_path[i] # "a\\b.txt"
         /\ named = {} => s3_name = Chars["backup"]
         /\ call = [fn |-> "_build_s3_key", watch_folders |-> folders,
                    folder_s3_mapping |-> [w \in {folders[i] : i \in named} |-> s3_name],
                    file_path |-> file_path, platform |-> platform,
                    result |-> <<>>, done |-> FALSE]

\* s3_key = self._build_s3_key(file_path)
BuildS3KeyCall ==
    /\ call.fn = "_build_s3_key" /\ ~call.done
    /\ call' = [call EXCEPT !.result = BuildS3Key(call.file_path, call.watch_folders,
                                                  call.folder_s3_mapping, call.platform),
                            !.done = TRUE]
    /\ UNCHANGED <<fs, backup_info, remote, upload_semaphore, proc, stats, last,
                   confirmed, nrecons, nchanges>>

SpecKey == InitKey /\ [][BuildS3KeyCall]_vars

\* ---------------------------------------------------------------- C22
\* The first watch folder, in the order of the configuration, that
\* contains the file.
FirstRoot(file_path, folders) ==
    LET hits == {i \in 1..Len(folders) : StartsWith(file_path, folders[i])}
    IN  IF hits = {} THEN 0 ELSE CHOOSE i \in hits : \A j \in hits : i <= j

\* C22: the key of a file is the remote name of the first watch root that
\* contains it, a slash, and the components of its path below that root
\* joined by slashes; the key of a file under no watch root is its absolute
\* path with every backslash replaced by a slash.
C22_KeyOfFirstRoot ==
    call.done =>
        LET i == FirstRoot(call.file_path, call.watch_folders)
        IN  IF i = 0
            THEN call.result = ReplaceBackslashes(StrAbsolute(call.file_path, call.platform))
            ELSE LET w == call.watch_folders[i]
                     name == IF w \in DOMAIN call.folder_s3_mapping
                             THEN call.folder_s3_mapping[w] ELSE Chars[w[Len(w)]]
                 IN  call.result =
                        name \o <<"/">> \o Join(SubSeq(call.file_path, Len(w) + 1,
                                                       Len(call.file_path)), "/")

\* ------------------------------------------------------ the full scan
\* A tree of paths for scan_all_folders: docs and music are folders, .cache
\* a hidden folder, ghost does not exist, notes.txt is a file; link is a
\* symbolic link to a folder.  Children gives iterdir() in its order.
ScanPaths == {"docs", "pics", "2024", ".git", "objects", "node_modules", "lib", "link",
              "music", "notes.txt", ".cache", "ghost"}
PathKind ==
    [q \in ScanPaths |-> IF q = "ghost" THEN "missing"
                         ELSE IF q = "notes.txt" THEN "file" ELSE "dir"]
Symlinks == {"link"}
Children ==
    [q \in ScanPaths |->
        IF q = "docs" THEN <<".git", "pics", "node_modules", "link">>
        ELSE IF q = "pics" THEN <<"2024">>
        ELSE IF q = ".git" THEN <<"objects">>
        ELSE IF q = "node_modules" THEN <<"lib">>
        ELSE IF q = "music" THEN <<"notes.txt">>
        ELSE <<>>]

\* What config.watch_folders can be: two different paths.
RootChoices == {"docs", "music", ".cache", "ghost", "notes.txt"}

\* FileListener.ignore_dirs (the entries that occur in the tree).
ignore_dirs == {<<".", "g", "i", "t">>, <<"n", "o", "d", "e", "_", "m", "o", "d", "u", "l", "e", "s">>, <<"v", "e", "n", "v">>}

\* FileListener._should_ignore_directory
ShouldIgnoreDirectory(dir_path) ==
    \/ Chars[dir_path] \in ignore_dirs
    \/ StartsWith(Chars[dir_path], <<".">>)
    \/ dir_path \in Symlinks
    \/ PathKind[dir_path] = "file"

\* Mutant of scan_all_folders: a watch folder that cannot be scanned ends
\* the loop.
SkipRoot_Abort(i, n) == n + 1

\* `continue` in the loop over config.watch_folders.
SkipRoot(i, n) == i + 1

Frame(folder, pc, items) == [folder |-> folder, pc |-> pc, items |-> items]
Top(stack) == stack[Len(stack)]
Pop(stack) == SubSeq(stack, 1, Len(stack) - 1)
ReplaceTop(stack, frame) == Append(Pop(stack), frame)

\* raises: the folders whose _process_current_folder raises (a manifest that
\* is valid JSON whose "files" is not a mapping makes
\* _determine_files_to_upload raise AttributeError); denied: the folders
\* whose iterdir() raises.
InitScan ==
    /\ FreshWorld
    /\ InitListener
    /\ stats = ZeroStats(FALSE)
    /\ \E r1 \in RootChoices, r2 \in RootChoices, raises \in SUBSET {"docs", "pics"},
          denied \in SUBSET {"docs"} :
         /\ r1 # r2
         /\ call = [fn |-> "scan_all_folders", watch_folders |-> <<r1, r2>>,
                    raises |-> raises, denied |-> denied, i |-> 1, stack |-> <<>>,
                    entered |-> {}, reconciled |-> <<>>, done |-> FALSE]

\* scan_all_folders: the next watch folder, or the end of the scan.
ScanNextRoot ==
    /\ call.fn = "scan_all_folders" /\ ~call.done /\ call.stack = <<>>
    /\ LET n == Len(call.watch_folders)
           folder_path == call.watch_folders[call.i]
       IN  IF call.i > n THEN call' = [call EXCEPT !.done = TRUE]
           ELSE IF PathKind[folder_path] = "missing"
           THEN call' = [call EXCEPT !.i = SkipRoot(call.i, n)]
           ELSE IF PathKind[folder_path] # "dir"
           THEN call' = [call EXCEPT !.i = SkipRoot(call.i, n)]
           ELSE call' = [call EXCEPT !.i = call.i + 1,
                                     !.entered = @ \cup {folder_path},
                                     !.stack = <<Frame(folder_path, "enter", <<>>)>>]
    /\ UNCHANGED <<fs, backup_info, remote, upload_semaphore, proc, stats, last,
                   confirmed, nrecons, nchanges>>

\* _process_folder_recursively up to its loop over the subfolders: the
\* ignore test, _process_current_folder, and iterdir().  An exception of
\* _process_current_folder ends the call in the outer except.
ProcessFolderEnter ==
    /\ call.fn = "scan_all_folders" /\ call.stack # <<>> /\ Top(call.stack).pc = "enter"
    /\ LET folder_path == Top(call.stack).folder
       IN  IF ShouldIgnoreDirectory(folder_path)
           THEN call' = [call EXCEPT !.stack = Pop(@)]
           ELSE IF folder_path \in call.raises \cup call.denied
           THEN call' = [call EXCEPT !.stack = Pop(@),
                                     !.reconciled = Append(@, folder_path)]
           ELSE call' = [call EXCEPT
                           !.stack = ReplaceTop(@, Frame(folder_path, "subfolders",
                                                         Children[folder_path])),
                           !.reconciled = Append(@, folder_path)]
    /\ UNCHANGED <<fs, backup_info, remote, upload_semaphore, proc, stats, last,
                   confirmed, nrecons, nchanges>>

\* for item in folder_path.iterdir():
\*     if item.is_dir() and not self._should_ignore_directory(item): recurse
ProcessFolderItem ==
    /\ call.fn = "scan_all_folders" /\ call.stack # <<>> /\ Top(call.stack).pc = "subfolders"
    /\ LET top == Top(call.stack)
       IN  IF top.items = <<>> THEN call' = [call EXCEPT !.stack = Pop(@)]
           ELSE LET item == Head(top.items)
                    rest == ReplaceTop(call.stack, [top EXCEPT !.items = Tail(@)])
                IN  IF PathKind[item] = "dir" /\ ~ShouldIgnoreDirectory(item)
                    THEN call' = [call EXCEPT !.stack = Append(rest, Frame(item, "enter", <<>>))]
                    ELSE call' = [call EXCEPT !.stack = rest]
    /\ UNCHANGED <<fs, backup_info, remote, upload_semaphore, proc, stats, last,
                   confirmed, nrecons, nchanges>>

NextScan == ScanNextRoot \/ ProcessFolderEnter \/ ProcessFolderItem

SpecScan == InitScan /\ [][NextScan]_vars

\* ---------------------------------------------------------------- C18
\* The folders below a folder, depth-first, leaving out every ignored
\* subfolder with all that is below it.
RECURSIVE WalkAll(_)
WalkAll(items) ==
    IF items = <<>> THEN <<>>
    ELSE LET item == Head(items)
         IN  (IF PathKind[item] = "dir" /\ ~ShouldIgnoreDirectory(item)
              THEN <<item>> \o WalkAll(Children[item]) ELSE <<>>)
             \o WalkAll(Tail(items))

RECURSIVE WalkRoots(_)
WalkRoots(roots) ==
    IF roots = <<>> THEN <<>>
    ELSE (IF PathKind[Head(roots)] = "dir"
          THEN <<Head(roots)>> \o WalkAll(Children[Head(roots)]) ELSE <<>>)
         \o WalkRoots(Tail(roots))

\* C18: when the full scan ends it has reconciled, for each watch root in
\* turn, the root and then depth-first every subfolder that is not ignored,
\* each once and after its parent, and nothing below an ignored subfolder.
C18_DepthFirstOnce ==
    call.done => call.reconciled = WalkRoots(call.watch_folders)

MaxWatcherOps == 3

\* The watch roots that pass the two tests of _add_folder_watch.
WatchableRoots(roots) == {r \in Range(roots) : PathKind[r] = "dir"}

\* Mutant of FolderWatcher.start: the test of self.running is missing.
AlreadyRunning_Never(running) == FALSE

\* if self.running: ... return
AlreadyRunning(running) == running

\* observer: "new" before observer.start(), "alive" after it, "stopped"
\* after observer.stop() and join().  refused: the roots for which
\* observer.schedule raised in the latest start; raised: the latest call
\* ended in an exception; noop: it returned at its first test.
InitWatcher ==
    /\ FreshWorld
    /\ InitListener
    /\ stats = ZeroStats(FALSE)
    /\ \E r1 \in RootChoices, r2 \in RootChoices :
         /\ r1 # r2
         /\ call = [fn |-> "FolderWatcher", watch_folders |-> <<r1, r2>>,
                    running |-> FALSE, handlers |-> {}, observer |-> "new",
                    observer_starts |-> 0, op |-> "none", noop |-> FALSE,
                    raised |-> FALSE, refused |-> {}, n |-> 0]

\* FolderWatcher.start with _add_folder_watch for each watch folder.
\* observer.schedule may raise (logged, no handler for that folder);
\* observer.start() is outside any try and may raise.
WatcherStart ==
    /\ call.fn = "FolderWatcher" /\ call.n < MaxWatcherOps
    /\ IF AlreadyRunning(call.running)
       THEN call' = [call EXCEPT !.op = "start", !.noop = TRUE, !.raised = FALSE,
                                 !.refused = {}, !.n = @ + 1]
       ELSE \E refused \in SUBSET WatchableRoots(call.watch_folders), started \in BOOLEAN :
              call' = [call EXCEPT
                         !.handlers = @ \cup (WatchableRoots(call.watch_folders) \ refused),
                         !.observer = IF started THEN "alive" ELSE @,
                         !.observer_starts = IF started THEN @ + 1 ELSE @,
                         !.running = IF started THEN TRUE ELSE @,
                         !.op = "start", !.noop = FALSE, !.raised = ~started,
                         !.refused = refused, !.n = @ + 1]
    /\ UNCHANGED <<fs, backup_info, remote, upload_semaphore, proc, stats, last,
                   confirmed, nrecons, nchanges>>

\* FolderWatcher.stop
WatcherStop ==
    /\ call.fn = "FolderWatcher" /\ call.n < MaxWatcherOps
    /\ IF ~call.running
       THEN call' = [call EXCEPT !.op = "stop", !.noop = TRUE, !.raised = FALSE,
                                 !.refused = {}, !.n = @ + 1]
       ELSE call' = [call EXCEPT !.observer = "stopped", !.running = FALSE,
                                 !.handlers = {}, !.op = "stop", !.noop = FALSE,
                                 !.raised = FALSE, !.refused = {}, !.n = @ + 1]
    /\ UNCHANGED <<fs, backup_info, remote, upload_semaphore, proc, stats, last,
                   confirmed, nrecons, nchanges>>

NextWatcher == WatcherStart \/ WatcherStop

SpecWatcher == InitWatcher /\ [][NextWatcher]_vars

\* ---------------------------------------------------------------- C23
\* What a call leaves alone when it is a no-op.
C23_Same ==
    /\ call'.running = call.running
    /\ call'.handlers = call.handlers
    /\ call'.observer = call.observer
    /\ call'.observer_starts = call.observer_starts

C23_Noops ==
    /\ call'.op = "start" /\ call.running => C23_Same
    /\ call'.op = "stop" /\ ~call.running => C23_Same
    /\ call'.op = "stop" /\ call.running => ~call'.running /\ call'.handlers = {}

\* C23 as stated: every start of a watcher that is not running leaves it
\* running with exactly one handler for each watch root that exists and is
\* a folder.
C23_Original ==
    [][/\ C23_Noops
       /\ call'.op = "start" /\ ~call.running
          => /\ call'.running
             /\ call'.handlers = WatchableRoots(call.watch_folders)]_vars

\* C23: start on a running watcher and stop on a stopped one change
\* nothing; a stop of a running watcher leaves it not running, with no
\* handler; a start of a watcher that is not running, when it returns
\* without raising, leaves it running with a handler for each watch root
\* that exists, is a folder and was accepted by the observer, and for no
\* other path; when observer.start() raises the watcher is not running.
C23_Lifecycle ==
    [][/\ C23_Noops
       /\ call'.op = "start" /\ ~call.running
          => /\ call'.running = ~call'.raised
             /\ call'.handlers \subseteq WatchableRoots(call.watch_folders)
             /\ WatchableRoots(call.watch_folders) \ call'.refused \subseteq call'.handlers
             /\ ~call'.raised /\ call.handlers = {}
                => call'.handlers = WatchableRoots(call.watch_folders) \ call'.refused]_vars

\* The third call was a stop of a running watcher whose observer was
\* started once: it is not running and has no handler.
C23_Witness ==
    /\ call.fn = "FolderWatcher"
    /\ call.watch_folders = <<"docs", "ghost">>
    /\ call.op = "stop" /\ ~call.noop /\ call.n = 3
    /\ call.observer_starts = 1 /\ ~call.running /\ call.handlers = {}

\* ------------------------------------------------------ the statistics
MaxResets == 1

StatKeys == {"scanned_folders", "scanned_files", "ignored_files", "uploaded_files",
             "skipped_files", "errors"}

\* Mutant of get_statistics: the caller gets the dictionary the listener
\* counts in.
GetStatistics_Live(s) == [live |-> TRUE, value |-> s]

\* FileListener.get_statistics: dict(self._stats), a copy.
GetStatistics(s) == [live |-> FALSE, value |-> s]

\* What the caller reads in the dictionary it was given.
ReadStatistics(snapshot) == IF snapshot.live THEN stats ELSE snapshot.value

\* The listener, restarted on folders backed up before, with its counters
\* observed; a caller takes one snapshot and resets the counters at most
\* MaxResets times, at any moment.
InitStats ==
    /\ RestartedWorld
    /\ InitListener
    /\ stats = ZeroStats(TRUE)
    /\ call = [fn |-> "statistics", snapshot |-> GetStatistics(ZeroStats(TRUE)),
               taken |-> FALSE, resets |-> 0]

\* FileListener.reset_statistics
ResetStatistics ==
    /\ call.fn = "statistics" /\ call.resets < MaxResets
    /\ stats' = ZeroStats(TRUE)
    /\ call' = [call EXCEPT !.resets = @ + 1]
    /\ UNCHANGED <<fs, backup_info, remote, upload_semaphore, proc, last, confirmed,
                   nrecons, nchanges>>

\* snapshot = file_listener.get_statistics()
TakeStatistics ==
    /\ call.fn = "statistics" /\ ~call.taken
    /\ call' = [call EXCEPT !.snapshot = GetStatistics(stats), !.taken = TRUE]
    /\ UNCHANGED <<fs, backup_info, remote, upload_semaphore, proc, stats, last,
                   confirmed, nrecons, nchanges>>

\* The folder whose reconciliations are counted.
StatsFolder == "docs"

\* Reconciliations of one folder by the full scan, one after the other,
\* while its files change and the counters are read and reset.
NextStats ==
    \/ \E f \in NameSet, c \in FileStates : FsChange(StatsFolder, f, c)
    \/ Scan("scan", StatsFolder)
    \/ \E f \in NameSet : Acquire("scan", f)
    \/ \E f \in NameSet : CheckRemote("scan", f)
    \/ \E f \in NameSet : UploadFile("scan", f)
    \/ \E f \in NameSet : Verify("scan", f)
    \/ \E f \in NameSet : Timeout("scan", f)
    \/ Commit("scan")
    \/ ResetStatistics
    \/ TakeStatistics

SpecStats == InitStats /\ [][NextStats]_vars

\* ---------------------------------------------------------------- C24
\* C24: a step other than reset_statistics decreases no counter;
\* reset_statistics leaves every counter at zero; and what the caller reads
\* in a snapshot it took stays what it was, whatever is counted or reset
\* afterwards.
C24_Step ==
    /\ call'.resets = call.resets => \A k \in StatKeys : stats'[k] >= stats[k]
    /\ call'.resets # call.resets => \A k \in StatKeys : stats'[k] = 0
    /\ call.taken => ReadStatistics(call.snapshot)' = ReadStatistics(call.snapshot)

C24_CountersMonotone == [][C24_Step]_vars

\* A snapshot with counted files is still as taken after a reset and
\* further counting.
C24_Witness ==
    /\ call.fn = "statistics" /\ call.taken /\ call.resets = 1
    /\ call.snapshot.value.scanned_files = 2
    /\ call.snapshot.value.uploaded_files = 1
    /\ stats.scanned_files = 1
    /\ stats.uploaded_files = 0

\* ---------------------------------------------------------------- C29
\* The files of folder d, not ignored, that cannot be hashed / can be.
Unhashable(d) == {f \in NameSet : fs[d][f] = Locked /\ ~ShouldIgnoreFile(Chars[f])}
Hashable(d) == {f \in NameSet : fs[d][f] \in Contents /\ ~ShouldIgnoreFile(Chars[f])}

\* C29: a scan that finds files it cannot hash counts one error for each,
\* leaves them out of the current fingerprints and of the candidates, and
\* hashes every other file of the folder; no upload task is made for them,
\* and the commit neither lists them as uploaded nor records a new
\* fingerprint for them.
C29_Step ==
    \A p \in Procs :
        /\ proc[p].pc = "idle" /\ proc'[p].pc = "uploading"
           => LET d == proc'[p].folder
              IN  /\ stats'.errors = stats.errors + Cardinality(Unhashable(d))
                  /\ stats'.scanned_files = stats.scanned_files + Cardinality(Hashable(d))
                  /\ \A f \in Unhashable(d) :
                        /\ proc'[p].current[f] = None
                        /\ f \notin Range(proc'[p].files_to_upload)
                  /\ \A g \in Hashable(d) : proc'[p].current[g] = md5(fs[d][g])
        /\ \A f \in NameSet :
              proc[p].pc = "uploading" /\ proc[p].snap[f] = Locked
              => /\ proc[p].task[f].st = "none"
                 /\ Commits(p)
                    => /\ f \notin last'[proc[p].folder].ok
                       /\ backup_info'[proc[p].folder].files[f]
                             \in {None, proc[p].existing[f]}

C29_HashFailureSkipsFile == [][C29_Step]_vars

\* b.txt could not be hashed: one error is counted, a.txt was hashed and
\* uploaded.
C29_Witness ==
    /\ call.fn = "statistics" /\ call.resets = 0
    /\ proc["scan"].pc = "uploading"
    /\ proc["scan"].snap["b.txt"] = Locked
    /\ proc["scan"].current["b.txt"] = None
    /\ proc["scan"].task["a.txt"].st = "uploaded"
    /\ stats.errors = 1 /\ stats.scanned_files = 1 /\ stats.uploaded_files = 1

\* ------------------------------------------- the scanner's file filter
\* The entries a scanned folder can hold (a.txt, a dotfile that is in no
\* ignore pattern, two names of ignore_patterns, a subfolder) and what each
\* can be.
FilterNames == {"a.txt", ".hidden", ".DS_Store", "Thumbs.db", "sub"}
FilterStates == {Absent, "x", Locked, IsDir}

\* FileListener._scan_current_files on the listing of any folder: neither
\* directories nor ignored files are hashed; a file is recorded with its
\* hash when hashing succeeds.
ScanFolder(folder) ==
    [f \in DOMAIN folder |->
        IF folder[f] \in {Absent, IsDir} \/ ShouldIgnoreFile(Chars[f]) THEN None
        ELSE CalculateMd5(folder[f])]

InitFilter ==
    /\ FreshWorld
    /\ InitListener
    /\ stats = ZeroStats(FALSE)
    /\ \E folder \in [FilterNames -> FilterStates] :
         call = [fn |-> "scan_current_files", folder |-> folder,
                 result |-> [f \in FilterNames |-> None], done |-> FALSE]

\* current_files = await self._scan_current_files(folder_path)
ScanCurrentFilesCall ==
    /\ call.fn = "scan_current_files" /\ ~call.done
    /\ call' = [call EXCEPT !.result = ScanFolder(call.folder), !.done = TRUE]
    /\ UNCHANGED <<fs, backup_info, remote, upload_semaphore, proc, stats, last,
                   confirmed, nrecons, nchanges>>

SpecFilter == InitFilter /\ [][ScanCurrentFilesCall]_vars

\* ---------------------------------------------------------------- C34
\* C34: the current fingerprint set the scanner returns holds no file whose
\* name begins with a dot.
C34_NoDotfileScanned ==
    call.done => \A f \in FilterNames :
                    StartsWith(Chars[f], <<".">>) => call.result[f] = None

\* ---------------------------------------------------------------- C35
\* The ignored files a scan of folder d meets.
IgnoredMet(d) ==
    {f \in NameSet : Listing(d)[f] \notin {Absent, IsDir} /\ ShouldIgnoreFile(Chars[f])}

\* C35: a scan adds the number of ignored files it meets to ignored_files.
C35_IgnoredCounted ==
    [][\A p \in Procs :
          proc[p].pc = "idle" /\ proc'[p].pc = "uploading"
          => stats'.ignored_files
                = stats.ignored_files + Cardinality(IgnoredMet(proc'[p].folder))]_vars

\* ---------------------------------------------------------------- C36
\* The candidates of p whose task ends in this step as failed / as
\* succeeded, and those that were cancelled by the timeout.
EndsFailed(p) ==
    {f \in NameSet : proc[p].task[f].st \notin Final /\ proc'[p].task[f].st = "failed"}
EndsSucceeded(p) ==
    {f \in NameSet : proc[p].task[f].st \notin Final /\ proc'[p].task[f].st \in Succeeded}
TimedOut(p) == {f \in NameSet : proc[p].task[f].st = "timeout"}

\* C36: from the creation of its upload tasks to its commit a reconciliation
\* adds exactly one to errors for each candidate that fails: one when a task
\* ends as failed, nothing when it ends as uploaded or skipped, and at the
\* commit one for each candidate the timeout cancelled and nothing more.
C36_Step ==
    \A p \in Procs :
        /\ EndsFailed(p) # {} => stats'.errors = stats.errors + Cardinality(EndsFailed(p))
        /\ EndsSucceeded(p) # {} => stats'.errors = stats.errors
        /\ Commits(p) => stats'.errors = stats.errors + Cardinality(TimedOut(p))

C36_OneErrorPerFailure == [][C36_Step]_vars

\* ---------------------------------------------------------------- C37
\* C37: when the full scan ends, every watch root that is a directory has
\* been reconciled, whatever its name.
C37_EveryRootReconciled ==
    call.done => \A r \in Range(call.watch_folders) :
                    PathKind[r] = "dir" => r \in Range(call.reconciled)

\* ------------------------------------- the watcher and its own writes
\* The live monitor in a loop with the reconciliations it starts: the
\* observer queues an event for every change of a watched folder, those of
\* the user and those of the program's own manifest writes.
MaxLoopChanges == 2
MaxLoopRecons == 4

Event(folder, name, event_type, is_directory) ==
    [folder |-> folder, name |-> name, event_type |-> event_type,
     is_directory |-> is_directory]

\* What the observer reports when the file `name` of folder d goes from
\* state `old` to state `new`: the file's event, and a modified event of the
\* directory when an entry appears or disappears.
EventsOfChange(d, name, old, new) ==
    IF old = Absent THEN <<Event(d, name, "created", FALSE), Event(d, d, "modified", TRUE)>>
    ELSE IF new = Absent THEN <<Event(d, name, "deleted", FALSE), Event(d, d, "modified", TRUE)>>
    ELSE <<Event(d, name, "modified", FALSE)>>

InitLoop ==
    /\ InitWorld
    /\ InitListener
    /\ stats = ZeroStats(FALSE)
    /\ call = [fn |-> "watch", queue |-> <<>>, scheduled |-> <<>>, dropped |-> {}, n |-> 0]

\* The user creates, overwrites or deletes a file of a watched folder.
UserWrite(d, f, c) ==
    /\ call.fn = "watch"
    /\ nchanges < MaxLoopChanges
    /\ f \in Files[d]
    /\ c \in Contents \cup {Absent}
    /\ c # fs[d][f]
    /\ fs' = [fs EXCEPT ![d][f] = c]
    /\ nchanges' = nchanges + 1
    /\ call' = [call EXCEPT !.queue = @ \o EventsOfChange(d, f, fs[d][f], c)]
    /\ UNCHANGED <<backup_info, remote, upload_semaphore, proc, stats, last, confirmed, nrecons>>

\* FileChangeHandler.on_any_event for the next event of the observer's
\* queue: dropped, or _process_changed_file scheduled on the event loop.
OnQueuedEvent ==
    /\ call.fn = "watch" /\ call.queue # <<>>
    /\ LET event == Head(call.queue)
           exists == Listing(event.folder)[event.name] # Absent
           outcome == IF event.is_directory THEN "dropped"
                      ELSE IF ~HandledEventType(event.event_type) THEN "dropped"
                      ELSE IF HandlerShouldIgnoreFile(Chars[event.name]) THEN "dropped"
                      ELSE IF ~exists THEN "dropped"
                      ELSE ScheduleOutcome(FALSE)
       IN  call' = [call EXCEPT
                      !.queue = Tail(@),
                      !.scheduled = IF outcome = "scheduled" THEN Append(@, event.folder) ELSE @,
                      !.dropped = IF outcome = "dropped" THEN @ \cup {event.name} ELSE @]
    /\ UNCHANGED <<fs, backup_info, remote, upload_semaphore, proc, stats, last,
                   confirmed, nrecons, nchanges>>

\* FileChangeHandler._process_changed_file as a task of the event loop:
\* _process_current_folder of the file's folder from its first to its last
\* step.  `uploaded_files` are the candidates whose upload succeeds; a
\* manifest write that opens the file is seen by the observer.
RunChangedFile ==
    /\ call.fn = "watch" /\ call.scheduled # <<>>
    /\ call.n < MaxLoopRecons
    /\ LET d == Head(call.scheduled)
           existing == LoadBackupInfo(backup_info[d])
           current == ScanCurrentFiles(Listing(d))
           files_to_upload == DetermineFilesToUpload(current, existing)
       IN  \E uploaded_files \in SUBSET Range(files_to_upload), outcome \in WriteOutcomes :
             LET writes == \/ uploaded_files # {}
                           \/ files_to_upload = <<>> /\ current # existing
                 backup_files == IF uploaded_files # {}
                                 THEN UpdatedBackupInfo(existing, current, files_to_upload, uploaded_files)
                                 ELSE current
                 events == IF writes /\ outcome # "refused"
                           THEN EventsOfChange(d, backup_info_filename, Listing(d)[backup_info_filename],
                                               ManifestBytes)
                           ELSE <<>>
             IN  /\ writes \/ outcome = "written"
                 /\ backup_info' = IF writes
                                   THEN [backup_info EXCEPT ![d] = UpdateBackupInfo(@, backup_files, outcome)]
                                   ELSE backup_info
                 /\ remote' = [remote EXCEPT ![d] =
                                 [f \in NameSet |-> IF f \in uploaded_files THEN current[f] ELSE @[f]]]
                 /\ call' = [call EXCEPT !.scheduled = Tail(@), !.queue = @ \o events,
                                         !.n = @ + 1]
    /\ UNCHANGED <<fs, upload_semaphore, proc, stats, last, confirmed, nrecons, nchanges>>

NextLoop ==
    \/ \E d \in Dirs, f \in NameSet, c \in FileStates : UserWrite(d, f, c)
    \/ OnQueuedEvent
    \/ RunChangedFile

\* The observer's thread hands over every queued event, and the event loop
\* runs every task scheduled on it.
SpecLoop ==
    InitLoop /\ [][NextLoop]_vars /\ WF_vars(OnQueuedEvent) /\ WF_vars(RunChangedFile)

\* ---------------------------------------------------------------- C32
\* The handler takes the event of a manifest file from the queue.
HandlesManifestEvent ==
    /\ call.queue # <<>>
    /\ Head(call.queue).name = backup_info_filename
    /\ Len(call'.queue) < Len(call.queue)

\* C32: the event of a manifest write schedules no reconciliation; there are
\* never more reconciliations than changes made by the user; and once the
\* user stops changing files the monitor comes to rest, with no event
\* queued and no reconciliation scheduled.
C32_ComesToRest ==
    /\ [][HandlesManifestEvent => call'.scheduled = call.scheduled]_vars
    /\ [](call.n <= nchanges)
    /\ <>[](call.queue = <<>> /\ call.scheduled = <<>>)

\* A reconciliation started by a user's change wrote the manifest of docs
\* for the first time; its event was dropped and the monitor is at rest.
C32_Witness ==
    /\ call.fn = "watch" /\ call.n = 1
    /\ backup_info["docs"].state = "valid"
    /\ remote["docs"]["a.txt"] = md5("y")
    /\ backup_info_filename \in call.dropped
    /\ call.queue = <<>> /\ call.scheduled = <<>>

\* ------------------------------------------------ multi-part upload
\* S3Manager._upload_large_file on a file of up to MaxChunks chunks of
\* chunk_size bytes.  call.requests is what the client was asked to do, in
\* order; call.pc is the statement the coroutine is at.
MaxChunks == 3

RECURSIVE ChunkFiles(_)
ChunkFiles(n) ==
    IF n = 0 THEN {<<>>}
    ELSE LET shorter == ChunkFiles(n - 1)
         IN  shorter \cup {Append(file, c) : file \in {g \in shorter : Len(g) = n - 1},
                                             c \in Contents}

Request(op, part_number, body) == [op |-> op, PartNumber |-> part_number, Body |-> body]

InitMultipart ==
    /\ FreshWorld
    /\ InitListener
    /\ stats = ZeroStats(FALSE)
    /\ \E file \in ChunkFiles(MaxChunks) \ {<<>>} :
         call = [fn |-> "upload_large_file", file |-> file, pos |-> 0, pc |-> "create",
                 upload_id |-> None, part_number |-> 1, parts |-> <<>>,
                 requests |-> <<>>, result |-> None]

\* response = await client.create_multipart_upload(...); an exception goes
\* to the outer except, which returns False.
CreateMultipartUpload ==
    /\ call.fn = "upload_large_file" /\ call.pc = "create"
    /\ \E ok \in BOOLEAN :
         call' = IF ok
                 THEN [call EXCEPT !.upload_id = <<"UploadId">>, !.pc = "part",
                                   !.requests = Append(@, Request("create", 0, None))]
                 ELSE [call EXCEPT !.pc = "returned", !.result = FALSE]
    /\ UNCHANGED <<fs, backup_info, remote, upload_semaphore, proc, stats, last,
                   confirmed, nrecons, nchanges>>

\* One turn of the while loop: chunk = f.read(chunk_size); an empty chunk
\* leaves the loop, any other is sent with upload_part and appended to
\* parts.  An exception of the read or of upload_part goes to the inner
\* except.
UploadPart ==
    /\ call.fn = "upload_large_file" /\ call.pc = "part"
    /\ \E read_ok \in BOOLEAN, ok \in BOOLEAN :
         IF ~read_ok THEN ~ok /\ call' = [call EXCEPT !.pc = "abort"]
         ELSE IF call.pos = Len(call.file) THEN ok /\ call' = [call EXCEPT !.pc = "complete"]
         ELSE LET chunk == call.file[call.pos + 1]
                  sent == Append(call.requests, Request("upload_part", call.part_number, chunk))
              IN  IF ok
                  THEN call' = [call EXCEPT
                                  !.pos = @ + 1,
                                  !.requests = sent,
                                  !.parts = Append(@, [ETag |-> chunk, PartNumber |-> call.part_number]),
                                  !.part_number = @ + 1]
                  ELSE call' = [call EXCEPT !.pos = @ + 1, !.requests = sent, !.pc = "abort"]
    /\ UNCHANGED <<fs, backup_info, remote, upload_semaphore, proc, stats, last,
                   confirmed, nrecons, nchanges>>

\* await client.complete_multipart_upload(... MultipartUpload={"Parts": parts});
\* return True
CompleteMultipartUpload ==
    /\ call.fn = "upload_large_file" /\ call.pc = "complete"
    /\ \E ok \in BOOLEAN :
         call' = [call EXCEPT !.requests = Append(@, Request("complete", 0, call.parts)),
                              !.pc = IF ok THEN "returned" ELSE "abort",
                              !.result = IF ok THEN TRUE ELSE @]
    /\ UNCHANGED <<fs, backup_info, remote, upload_semaphore, proc, stats, last,
                   confirmed, nrecons, nchanges>>

\* The inner except: abort_multipart_upload, whose own exception is
\* ignored, then raise e, which the outer except turns into return False.
AbortMultipartUpload ==
    /\ call.fn = "upload_large_file" /\ call.pc = "abort"
    /\ call' = [call EXCEPT !.requests = Append(@, Request("abort", 0, None)),
                            !.pc = "returned", !.result = FALSE]
    /\ UNCHANGED <<fs, backup_info, remote, upload_semaphore, proc, stats, last,
                   confirmed, nrecons, nchanges>>

\* asyncio.wait_for(task, timeout=300) of _upload_files expires while the
\* coroutine is suspended in upload_part, complete_multipart_upload or
\* abort_multipart_upload: CancelledError is raised at that await.  It is a
\* BaseException, so neither `except Exception` catches it.
CancelUpload ==
    /\ call.fn = "upload_large_file"
    /\ \/ call.pc = "part" /\ call.pos < Len(call.file)
          /\ call' = [call EXCEPT
                        !.requests = Append(@, Request("upload_part", call.part_number,
                                                       call.file[call.pos + 1])),
                        !.pc = "cancelled"]
       \/ call.pc = "complete"
          /\ call' = [call EXCEPT !.requests = Append(@, Request("complete", 0, call.parts)),
                                  !.pc = "cancelled"]
       \/ call.pc = "abort"
          /\ call' = [call EXCEPT !.requests = Append(@, Request("abort", 0, None)),
                                  !.pc = "cancelled"]
    /\ UNCHANGED <<fs, backup_info, remote, upload_semaphore, proc, stats, last,
                   confirmed, nrecons, nchanges>>

NextMultipart ==
    \/ CreateMultipartUpload
    \/ UploadPart
    \/ CompleteMultipartUpload
    \/ AbortMultipartUpload
    \/ CancelUpload

SpecMultipart == InitMultipart /\ [][NextMultipart]_vars

\* ---------------------------------------------------------------- C33
Requested(op) == {i \in 1..Len(call.requests) : call.requests[i].op = op}

\* C33: once the coroutine has ended, a multi-part upload it initiated has
\* had its completion or its abort requested; when a part upload or the
\* completion failed the abort was requested and the result is failure; and
\* the parts were sent with the numbers 1, 2, ... and the chunks of the file
\* in file order.
C33_CompletedOrAborted ==
    /\ call.pc \in {"returned", "cancelled"} /\ call.upload_id # None
       => Requested("complete") \cup Requested("abort") # {}
    /\ call.pc = "returned" /\ call.upload_id # None /\ call.result # TRUE
       => Requested("abort") # {} /\ call.result = FALSE
    /\ LET sent == SelectSeq(call.requests, LAMBDA r : r.op = "upload_part")
       IN  \A i \in 1..Len(sent) : sent[i].PartNumber = i /\ sent[i].Body = call.file[i]

\* ------------------------------------------------------------ startup
\* AWSCopierApp.start: the record of the full scan with the state of the
\* remote store client (s3) and of the folder watcher added to it.

\* Mutant of start: a failed initialize is logged and the start goes on.
AfterInitialize_GoesOn(ok) == "scan_all_folders"

\* await self.s3_manager.initialize(): it re-raises what head_bucket raises,
\* and start's `except Exception` then leads to the finally clause.
AfterInitialize(ok) == IF ok THEN "scan_all_folders" ELSE "ended"

InitStart ==
    /\ FreshWorld
    /\ InitListener
    /\ stats = ZeroStats(FALSE)
    /\ \E r1 \in RootChoices, r2 \in RootChoices, raises \in SUBSET {"docs", "pics"},
          denied \in SUBSET {"docs"} :
         /\ r1 # r2
         /\ call = [fn |-> "start", watch_folders |-> <<r1, r2>>,
                    raises |-> raises, denied |-> denied, i |-> 1, stack |-> <<>>,
                    entered |-> {}, reconciled |-> <<>>, done |-> FALSE,
                    s3 |-> "none", watcher |-> "none", running |-> FALSE]

\* S3Manager.initialize, called first by start.
Initialize ==
    /\ call.fn = "start"
    /\ \E ok \in BOOLEAN :
         call' = [call EXCEPT !.s3 = IF ok THEN "ok" ELSE "failed",
                              !.fn = AfterInitialize(ok)]
    /\ UNCHANGED <<fs, backup_info, remote, upload_semaphore, proc, stats, last,
                   confirmed, nrecons, nchanges>>

\* await self.folder_watcher.start() once scan_all_folders has returned;
\* self.running = True.  An exception of the observer ends start through
\* `except Exception` and shutdown, which returns at once as running is
\* still False.
StartFolderWatcher ==
    /\ call.fn = "scan_all_folders" /\ call.done
    /\ \E ok \in BOOLEAN :
         call' = IF ok
                 THEN [call EXCEPT !.fn = "status_loop", !.watcher = "running", !.running = TRUE]
                 ELSE [call EXCEPT !.fn = "ended", !.watcher = "failed"]
    /\ UNCHANGED <<fs, backup_info, remote, upload_semaphore, proc, stats, last,
                   confirmed, nrecons, nchanges>>

\* The shutdown event ends the status loop; shutdown stops the watcher.
Shutdown ==
    /\ call.fn = "status_loop"
    /\ call' = [call EXCEPT !.fn = "ended", !.watcher = "stopped", !.running = FALSE]
    /\ UNCHANGED <<fs, backup_info, remote, upload_semaphore, proc, stats, last,
                   confirmed, nrecons, nchanges>>

NextStart ==
    \/ Initialize
    \/ ScanNextRoot
    \/ ProcessFolderEnter
    \/ ProcessFolderItem
    \/ StartFolderWatcher
    \/ Shutdown

SpecStart == InitStart /\ [][NextStart]_vars

\* ---------------------------------------------------------------- C38
\* The full scan has taken its first step.
ScanBegun == call.i > 1 \/ call.entered # {} \/ call.reconciled # <<>> \/ call.done

\* C38: the scan does nothing before the remote store is initialised, the
\* watcher is started only when the scan has ended, after which the scan
\* does nothing more; when initialising failed, the scan is never begun and
\* the watcher never started.
C38_Step ==
    /\ <<call.i, call.stack, call.entered, call.reconciled, call.done>>'
          # <<call.i, call.stack, call.entered, call.reconciled, call.done>>
       => call.s3 = "ok" /\ call.watcher = "none"
    /\ call'.watcher # call.watcher /\ call.watcher = "none"
       => call.s3 = "ok" /\ call.done /\ call.stack = <<>>

C38_StartupOrder ==
    /\ [](call.s3 = "failed" => ~ScanBegun /\ call.watcher = "none" /\ call.fn = "ended")
    /\ [](call.fn = "start" => ~ScanBegun /\ call.watcher = "none")
    /\ [][C38_Step]_vars

\* The store was initialised, both roots were scanned and then the watcher
\* was started.
C38_Witness ==
    /\ call.fn = "status_loop" /\ call.s3 = "ok" /\ call.watcher = "running"
    /\ call.done /\ call.watch_folders = <<"docs", "music">>
    /\ Len(call.reconciled) >= 3

\* ------------------------------------------------------ queue manager
\* QueueManager: _current_batch, the batch files of the batch folder in the
\* order they were written, and _stats.
MaxAdds == 4
MaxSaves == 3
QueuePaths == {"a.txt", "b.txt", "notes.txt"}

\* list(a_set): the members of the set, each once, in some order.
ListsOf(set) ==
    {list \in [1..Cardinality(set) -> set] : \A path \in set : \E i \in DOMAIN list : list[i] = path}

\* A batch file whose JSON was written in full, and one whose json.dump
\* raised after open() created it.
BatchFile(files) == [state |-> "valid", files |-> files]
TornBatchFile == [state |-> "torn", files |-> <<>>]

\* Mutant of _save_current_batch: the batch is cleared whether or not the
\* file was written.
AfterSave_AlwaysClears(current_batch, outcome) == {}

\* _save_current_batch: self._current_batch.clear() is the last statement
\* of the try, reached only when open and json.dump did not raise.
AfterSave(current_batch, outcome) == IF outcome = "written" THEN {} ELSE current_batch

InitQueue ==
    /\ FreshWorld
    /\ InitListener
    /\ stats = ZeroStats(FALSE)
    /\ call = [fn |-> "queue_manager", current_batch |-> {}, batch_files |-> <<>>,
               files_added |-> 0, batches_saved |-> 0, last_save |-> "none",
               added |-> {}, adds |-> 0, saves |-> 0]

\* QueueManager.add_file
AddFile(file_str) ==
    /\ call.fn = "queue_manager" /\ call.adds < MaxAdds
    /\ call' = [call EXCEPT
                  !.current_batch = IF file_str \notin @ THEN @ \cup {file_str} ELSE @,
                  !.files_added = IF file_str \notin call.current_batch THEN @ + 1 ELSE @,
                  !.added = @ \cup {file_str},
                  !.adds = @ + 1]
    /\ UNCHANGED <<fs, backup_info, remote, upload_semaphore, proc, stats, last,
                   confirmed, nrecons, nchanges>>

\* QueueManager._save_current_batch, from _periodic_save or stop.
SaveCurrentBatch ==
    /\ call.fn = "queue_manager" /\ call.saves < MaxSaves
    /\ IF call.current_batch = {}
       THEN call' = [call EXCEPT !.last_save = "nothing", !.saves = @ + 1]
       ELSE \E files \in ListsOf(call.current_batch), outcome \in WriteOutcomes :
              call' = [call EXCEPT
                         !.batch_files = IF outcome = "written" THEN Append(@, BatchFile(files))
                                         ELSE IF outcome = "torn" THEN Append(@, TornBatchFile)
                                         ELSE @,
                         !.batches_saved = IF outcome = "written" THEN @ + 1 ELSE @,
                         !.current_batch = AfterSave(@, outcome),
                         !.last_save = outcome,
                         !.saves = @ + 1]
    /\ UNCHANGED <<fs, backup_info, remote, upload_semaphore, proc, stats, last,
                   confirmed, nrecons, nchanges>>

NextQueue ==
    \/ \E file_str \in QueuePaths : AddFile(file_str)
    \/ SaveCurrentBatch

SpecQueue == InitQueue /\ [][NextQueue]_vars

\* ---------------------------------------------------------------- C39
\* The paths held by the batch files that can be loaded.
SavedPaths == UNION {Range(call.batch_files[i].files) : i \in DOMAIN call.batch_files}

\* C39: a save of a non-empty batch that succeeds appends one batch file
\* that lists exactly the paths of the batch, each once, and empties the
\* batch; a save of an empty batch writes nothing; a save that fails adds
\* no loadable batch file and leaves the batch as it was; and every path
\* ever added is in the current batch or in a saved batch file.
C39_Step ==
    call'.saves # call.saves =>
        LET before == call.batch_files
            after == call'.batch_files
        IN  /\ call.current_batch = {}
               => after = before /\ call'.current_batch = {} /\ call'.last_save = "nothing"
            /\ call.current_batch # {} /\ call'.last_save = "written"
               => /\ Len(after) = Len(before) + 1
                  /\ SubSeq(after, 1, Len(before)) = before
                  /\ after[Len(after)].state = "valid"
                  /\ Range(after[Len(after)].files) = call.current_batch
                  /\ Len(after[Len(after)].files) = Cardinality(call.current_batch)
                  /\ call'.current_batch = {}
            /\ call.current_batch # {} /\ call'.last_save # "written"
               => /\ call'.current_batch = call.current_batch
                  /\ after \in {before, Append(before, TornBatchFile)}

C39_SavePendingBatch ==
    /\ [](call.added \subseteq call.current_batch \cup SavedPaths)
    /\ [][C39_Step]_vars

\* a.txt was added twice and b.txt once; a first save failed and kept the
\* batch, the second wrote one file with the two paths.
C39_Witness ==
    /\ call.fn = "queue_manager" /\ call.adds = 3 /\ call.files_added = 2
    /\ call.saves = 2 /\ call.last_save = "written"
    /\ call.batch_files = <<TornBatchFile, BatchFile(<<"b.txt", "a.txt">>)>>
    /\ call.current_batch = {}

\* ---------------------------------------------------- batch processor
\* BatchProcessor._process_batches over the batch files of the batch folder,
\* oldest first in call.folder.  A batch file is named by its position in
\* the folder at the start.  No file is added while the processor runs, and
\* unlink succeeds.
MaxBatchFiles == 3
MaxLoads == 3

\* What a batch file can hold: no valid JSON, or a list of paths.
BatchContents == {TornBatchFile, BatchFile(<<>>), BatchFile(<<"a.txt">>),
                  BatchFile(<<"a.txt", "b.txt">>)}

RECURSIVE BatchFolders(_)
BatchFolders(n) ==
    IF n = 0 THEN {<<>>}
    ELSE LET shorter == BatchFolders(n - 1)
         IN  shorter \cup {Append(folder, [id |-> n, data |-> data]) :
                              folder \in {g \in shorter : Len(g) = n - 1},
                              data \in BatchContents}

InitBatch ==
    /\ FreshWorld
    /\ InitListener
    /\ stats = ZeroStats(FALSE)
    /\ \E folder \in BatchFolders(MaxBatchFiles) \ {<<>>} :
         call = [fn |-> "process_batches", start |-> folder, folder |-> folder,
                 pc |-> "loop", tasks |-> {}, ended |-> {}, loads |-> 0,
                 deleted |-> <<>>]

\* One turn of the loop of _process_batches up to the gather of
\* _process_batch_file: the oldest batch file is loaded; a file that cannot
\* be loaded is left where it is, one without paths is deleted, and for any
\* other an upload task is created for each path.  call.loads counts the
\* failed loads of the oldest file up to MaxLoads; a further one leaves the
\* state as it is.
ProcessBatchFile ==
    /\ call.fn = "process_batches" /\ call.pc = "loop" /\ call.folder # <<>>
    /\ LET batch_file == call.folder[1]
           batch_data == batch_file.data
       IN  IF batch_data.state # "valid"
           THEN call' = [call EXCEPT !.loads = IF @ < MaxLoads THEN @ + 1 ELSE @]
           ELSE IF batch_data.files = <<>>
           THEN call' = [call EXCEPT !.loads = 0, !.folder = Tail(@),
                                     !.deleted = Append(@, batch_file.id)]
           ELSE call' = [call EXCEPT !.loads = 0, !.pc = "gather",
                                     !.tasks = Range(batch_data.files), !.ended = {}]
    /\ UNCHANGED <<fs, backup_info, remote, upload_semaphore, proc, stats, last,
                   confirmed, nrecons, nchanges>>

\* _upload_file_with_semaphore of one path ends: True, False or an
\* exception, which gather returns.
UploadTaskEnds(file_path_str) ==
    /\ call.fn = "process_batches" /\ call.pc = "gather"
    /\ file_path_str \in call.tasks
    /\ call' = [call EXCEPT !.tasks = @ \ {file_path_str}, !.ended = @ \cup {file_path_str}]
    /\ UNCHANGED <<fs, backup_info, remote, upload_semaphore, proc, stats, last,
                   confirmed, nrecons, nchanges>>

\* gather has returned: the results are counted and the batch file deleted.
DeleteProcessedBatch ==
    /\ call.fn = "process_batches" /\ call.pc = "gather" /\ call.tasks = {}
    /\ call' = [call EXCEPT !.pc = "loop", !.folder = Tail(@),
                            !.deleted = Append(@, call.folder[1].id), !.ended = {}]
    /\ UNCHANGED <<fs, backup_info, remote, upload_semaphore, proc, stats, last,
                   confirmed, nrecons, nchanges>>

NextBatch ==
    \/ ProcessBatchFile
    \/ \E file_path_str \in QueuePaths : UploadTaskEnds(file_path_str)
    \/ DeleteProcessedBatch

\* The processing task keeps running and every upload ends.
SpecBatch ==
    /\ InitBatch
    /\ [][NextBatch]_vars
    /\ WF_vars(ProcessBatchFile)
    /\ WF_vars(\E file_path_str \in QueuePaths : UploadTaskEnds(file_path_str))
    /\ WF_vars(DeleteProcessedBatch)

\* ---------------------------------------------------------------- C40
\* C40: batch files are deleted oldest first, a batch file is deleted only
\* when the upload of each of its paths has ended, and every batch file that
\* can be loaded is eventually deleted, also when an older batch file cannot
\* be loaded.
C40_Step ==
    call'.deleted # call.deleted =>
        /\ call'.deleted = Append(call.deleted, call.folder[1].id)
        /\ call.ended = Range(call.folder[1].data.files)

C40_EveryBatchProcessed ==
    /\ [][C40_Step]_vars
    /\ \A i \in 1..MaxBatchFiles :
         (i \in DOMAIN call.start /\ call.start[i].data.state = "valid")
            ~> (i \in Range(call.deleted))

\* -------------------------------------------------------- convergence
\* Reconciliations of one folder, by both paths, for ever, over files that
\* no longer change.  Each pass is taken in two steps, its reads
\* (_load_backup_info, _scan_current_files, _determine_files_to_upload) and
\* its uploads with step 5, so that a pass can work from a manifest that
\* another pass has replaced since.
ConvergeFolder == "docs"
NoJob == [pc |-> "idle", existing |-> EmptyFiles, current |-> EmptyFiles,
          files_to_upload |-> <<>>]

InitConverge ==
    /\ InitListener
    /\ stats = ZeroStats(FALSE)
    /\ confirmed = {}
    /\ \E chosen \in [Files[ConvergeFolder] -> Contents \cup {Absent, Locked}],
          info \in {NoBackupInfo, CorruptBackupInfo,
                    [state |-> "valid", files |-> BackedUp(ConvergeFolder)]},
          objects \in {EmptyFiles, BackedUp(ConvergeFolder)} :
         /\ fs = [d \in Dirs |-> [f \in NameSet |->
                    IF d = ConvergeFolder /\ f \in Files[d] THEN chosen[f]
                    ELSE IF f \in Files[d] \cup Litter[d] THEN "x"
                    ELSE IF f \in Subfolders[d] THEN IsDir ELSE Absent]]
         /\ backup_info = [d \in Dirs |-> IF d = ConvergeFolder THEN info ELSE NoBackupInfo]
         /\ remote = [d \in Dirs |-> IF d = ConvergeFolder THEN objects ELSE EmptyFiles]
    /\ call = [fn |-> "process_current_folder", job |-> [p \in Procs |-> NoJob],
               put |-> {}, wrote |-> "none", at_rest |-> FALSE]

\* _process_current_folder, steps 1 to 3.
ReconcileRead(p) ==
    /\ call.fn = "process_current_folder" /\ call.job[p].pc = "idle"
    /\ LET existing == LoadBackupInfo(backup_info[ConvergeFolder])
           current == ScanCurrentFiles(Listing(ConvergeFolder))
       IN  call' = [call EXCEPT !.job[p] =
                      [pc |-> "uploading", existing |-> existing, current |-> current,
                       files_to_upload |-> DetermineFilesToUpload(current, existing)]]
    /\ UNCHANGED <<fs, backup_info, remote, upload_semaphore, proc, stats, last,
                   confirmed, nrecons, nchanges>>

\* _process_current_folder, steps 4 and 5: uploaded_files are the
\* candidates _upload_files returns; those the store did not hold yet were
\* transferred (call.put).  call.wrote is the outcome of the manifest write
\* of this pass, call.at_rest that the pass found nothing to do.
ReconcileWrite(p, uploaded_files, outcome) ==
    /\ call.fn = "process_current_folder" /\ call.job[p].pc = "uploading"
    /\ uploaded_files \subseteq Range(call.job[p].files_to_upload)
    /\ LET d == ConvergeFolder
           existing == call.job[p].existing
           current == call.job[p].current
           files_to_upload == call.job[p].files_to_upload
           writes == \/ uploaded_files # {}
                     \/ files_to_upload = <<>> /\ current # existing
           backup_files == IF uploaded_files # {}
                           THEN UpdatedBackupInfo(existing, current, files_to_upload, uploaded_files)
                           ELSE current
       IN  /\ writes \/ outcome = "written"
           /\ backup_info' = IF writes
                             THEN [backup_info EXCEPT ![d] = UpdateBackupInfo(@, backup_files, outcome)]
                             ELSE backup_info
           /\ remote' = [remote EXCEPT ![d] =
                           [f \in NameSet |-> IF f \in uploaded_files THEN current[f] ELSE @[f]]]
           /\ call' = [call EXCEPT
                         !.job[p] = NoJob,
                         !.put = {f \in uploaded_files : remote[d][f] # current[f]},
                         !.wrote = IF writes THEN outcome ELSE "none",
                         !.at_rest = (files_to_upload = <<>> /\ current = existing)]
    /\ UNCHANGED <<fs, upload_semaphore, proc, stats, last, confirmed, nrecons, nchanges>>

\* A pass in which every candidate is uploaded.
ReconcileAll(p) ==
    \E outcome \in WriteOutcomes :
        ReconcileWrite(p, Range(call.job[p].files_to_upload), outcome)

NextConverge ==
    \/ \E p \in Procs : ReconcileRead(p)
    \/ \E p \in Procs, uploaded_files \in SUBSET NameSet, outcome \in WriteOutcomes :
         ReconcileWrite(p, uploaded_files, outcome)

\* Reconciliations of the folder keep being run and each comes to its end
\* (the upload timeout); again and again a pass has all its uploads succeed.
SpecConverge ==
    /\ InitConverge
    /\ [][NextConverge]_vars
    /\ \A p \in Procs : WF_vars(ReconcileRead(p))
    /\ \A p \in Procs : WF_vars(\E uploaded_files \in SUBSET NameSet, outcome \in WriteOutcomes :
                                    ReconcileWrite(p, uploaded_files, outcome))
    /\ \A p \in Procs : SF_vars(ReconcileAll(p))

\* ---------------------------------------------------------------- C31
\* The manifest of the folder, as a reconciliation loads it, is the current
\* fingerprint set, and the latest pass transferred nothing.
Converged ==
    /\ LoadBackupInfo(backup_info[ConvergeFolder]) = ScanCurrentFiles(Listing(ConvergeFolder))
    /\ call.put = {}

\* C31 as stated: with the files no longer changing, uploads succeeding
\* again and again and reconciliations kept running, from some time on the
\* manifest equals the current fingerprints and no pass uploads anything.
C31_Original == <>[]Converged

\* C31: the same, when from some time on no write of the manifest fails.
C31_Converges == <>[](call.wrote # "refused" /\ call.wrote # "torn") => <>[]Converged

\* a.txt had changed and b.txt had been deleted: a.txt was uploaded, the
\* manifest now lists a.txt alone with its new fingerprint, and a later
\* pass found nothing to do.
C31_Witness ==
    /\ call.fn = "process_current_folder" /\ call.at_rest /\ call.put = {}
    /\ fs[ConvergeFolder]["a.txt"] = "y" /\ fs[ConvergeFolder]["b.txt"] = Absent
    /\ remote[ConvergeFolder]["a.txt"] = md5("y")
    /\ backup_info[ConvergeFolder] =
          [state |-> "valid",
           files |-> [f \in NameSet |-> IF f = "a.txt" THEN md5("y") ELSE None]]

====
